---------------------------- MODULE Spec2Model ----------------------------
(***************************************************************************)
(* A model of the Kova AI repository's multi-repository synchronisation    *)
(* service (kova-ai/app/services/multi_repo_sync_service.py), of its       *)
(* Google Drive file organisation service                                  *)
(* (kova-ai/app/services/google_drive_integration.py) and of the Google    *)
(* Drive import script (scripts/gdrive_import.py); and of the AI           *)
(* endpoints (kova-ai/app/api/ai_endpoints.py, integrations/               *)
(* openai_client.py), the GitHub webhook (kova-ai/app/api/webhooks.py),    *)
(* the file organizer (scripts/file_organizer.py), the rate limiter        *)
(* (kova-ai/app/security/middleware.py), the configuration validator       *)
(* (scripts/validate_config.py) and the multi-turn conversation of         *)
(* kova-ai/app/services/claude_connector.py.                               *)
(*                                                                         *)
(* Python strings whose characters matter (file names, keywords, mime      *)
(* types) are tuples of one-character strings, so that lower(), replace(), *)
(* "in" and re.findall are computed character by character.  Python dicts  *)
(* keep insertion order: a dict is a sequence of <<key, value>> pairs.     *)
(***************************************************************************)
EXTENDS Integers, Sequences, FiniteSets, TLC

VARIABLES
    \* MultiRepoSyncService.sync_all_repositories
    config,      \* self.config["repositories"]
    pc,          \* position of the sync pass
    repos,       \* local `repos`
    idx,         \* position of the for loop in `repos` (1-based)
    results,     \* local `results`
    cur,         \* locals of the running _sync_single_repo call
    requests,    \* the GET requests issued so far, in order
    inflight,    \* the GET requests issued and not yet answered
    last,        \* the latest request and what it did
    returned,    \* the value sync_all_repositories returned
    \* GoogleDriveKovaIntegration
    files,       \* the list of file records handed to the service
    op,          \* the method that was called ("none": not yet)
    arg,         \* categorize_file: the position in `files` of its argument
    out,         \* what the method returned
    plans,       \* the plans generate_migration_plan returned, in order
    \* GoogleDriveImporter.run
    listing,     \* `files`, the records search_kova_files returned
    ipc,         \* position of run()
    analyzed,    \* `analyzed_files`
    duplicates,  \* `duplicates`, the value of find_duplicates
    \* kova_repos_config.json and the calls of add_repo_to_config
    document,    \* the configuration document on disk
    writers,     \* the running add_repo_to_config calls and their locals
    shared,      \* TRUE: the calls are coroutines of one event loop
    \* one record each: the state of a component while it runs
    ai,          \* the AI endpoints, the sync service's and OpenAI's clients
    hook,        \* the github_webhook handler and its request
    organizer,   \* FileOrganizer and the run of its main()
    limiter,     \* RateLimitMiddleware and the clock
    validator,   \* ConfigValidator.validate_all
    conv         \* ClaudeConnector.multi_turn_conversation

syncVars == <<config, pc, repos, idx, results, cur, requests, inflight, last,
             returned>>
driveVars == <<files, op, arg, out, plans>>
importVars == <<listing, ipc, analyzed, duplicates>>
configVars == <<document, writers, shared>>
extVars == <<ai, hook, organizer, limiter, validator, conv>>
vars == <<config, pc, repos, idx, results, cur, requests, inflight, last,
          returned, files, op, arg, out, plans, listing, ipc, analyzed,
          duplicates, document, writers, shared, ai, hook, organizer,
          limiter, validator, conv>>

\* A component that does not run.
Idle == [pc |-> "off"]

-----------------------------------------------------------------------------
(* Bounds of the model.                                                    *)

\* Longest configuration document (number of repository entries).
MaxRepos == 2
\* Longest list of file records handed to the Drive service.
MaxFiles == 3
\* Most fragments a generated file name is made of.
MaxParts == 3
\* Longest Drive listing the import script analyses.
MaxListing == 3
\* Most plans generated from one manifest.
MaxPlans == 2
\* Longest inventory handed to the file organizer.
MaxInventory == 2
\* The rate limiter's parameters `calls` and `period` (main.py configures
\* 100 requests per 60 seconds; the model runs the same code with a small
\* limit and window), the latest clock reading and the most requests.
calls == 2
period == 2
MaxTime == 4
MaxDispatches == 5
\* Most calls of validate_all on one validator.
MaxValidateCalls == 2
\* Most user messages of a multi-turn conversation.
MaxTurns == 3

-----------------------------------------------------------------------------
(* Python helpers.                                                         *)

Range(s) == {s[i] : i \in DOMAIN s}

\* All sequences over S of length at most n.
SeqUpTo(S, n) == UNION {[1..k -> S] : k \in 0..n}

\* dict: keys(), `k in d`, d[k], d[k] = v (insertion order kept).
DictKeys(d) == {d[i][1] : i \in DOMAIN d}
DictHas(d, k) == k \in DictKeys(d)
DictGet(d, k) == d[CHOOSE i \in DOMAIN d : d[i][1] = k][2]
DictPut(d, k, v) ==
    IF DictHas(d, k)
    THEN [i \in DOMAIN d |-> IF d[i][1] = k THEN <<k, v>> ELSE d[i]]
    ELSE Append(d, <<k, v>>)

\* str.lower(), on the letters the model's names use.
UpperCase == <<"A", "B", "C", "D", "E", "F", "G", "H", "I", "J", "K", "L", "M",
               "N", "O", "P", "Q", "R", "S", "T", "U", "V", "W", "X", "Y", "Z">>
LowerCase == <<"a", "b", "c", "d", "e", "f", "g", "h", "i", "j", "k", "l", "m",
               "n", "o", "p", "q", "r", "s", "t", "u", "v", "w", "x", "y", "z">>
lower_char(c) ==
    IF \E i \in DOMAIN UpperCase : UpperCase[i] = c
    THEN LowerCase[CHOOSE i \in DOMAIN UpperCase : UpperCase[i] = c]
    ELSE c
lower(s) == [i \in DOMAIN s |-> lower_char(s[i])]

\* s.replace(c, ""), c one character.
remove(s, c) == SelectSeq(s, LAMBDA x : x # c)

\* `t in s`, for strings.
Contains(s, t) ==
    \E i \in 0..(Len(s) - Len(t)) : SubSeq(s, i + 1, i + Len(t)) = t

\* any(k in s for k in keys), keys a list of strings.
ContainsAny(s, keys) == \E k \in DOMAIN keys : Contains(s, keys[k])

\* str(n), n a natural number: its decimal digits.
Digits == <<"0", "1", "2", "3", "4", "5", "6", "7", "8", "9">>
RECURSIVE str(_)
str(n) == IF n < 10 THEN <<Digits[n + 1]>>
          ELSE str(n \div 10) \o <<Digits[(n % 10) + 1]>>

\* The concatenations of at most n members of the set of strings S.
RECURSIVE Concats(_, _)
Concats(S, n) ==
    IF n = 0 THEN {<<>>}
    ELSE Concats(S, n - 1)
         \cup {a \o b : a \in Concats(S, n - 1), b \in S}

-----------------------------------------------------------------------------
(* MultiRepoSyncService: one pass of sync_all_repositories.                *)

RepoIds == {"Kathrynhiggs21/kova-ai", "Kathrynhiggs21/kova-ai-site"}

\* A repository entry of the configuration document.  "enabled" may be
\* missing from an entry: get_enabled_repos reads it with a default.
RepoEntries == [full_name : RepoIds, enabled : {"True", "False", "missing"}]

Configs == SeqUpTo(RepoEntries, MaxRepos)

\* What one client.get can do: raise (a network exception), or answer with
\* a status code and a body that is JSON of the expected shape ("valid"),
\* JSON of another shape ("wrong_shape") or not JSON at all ("not_json").
\* The body of a 204 is empty; the body of a 404 or a 500 is never read.
Bodies == {"valid", "wrong_shape", "not_json"}
Outcomes ==
    {[kind |-> "exception", status |-> 0, body |-> "none"]}
    \cup [kind : {"response"}, status : {200}, body : Bodies]
    \cup [kind : {"response"}, status : {204}, body : {"empty"}]
    \cup [kind : {"response"}, status : {404, 500}, body : {"unread"}]

\* The payload of a valid branches body and of a valid commits body.
ValidBranches == <<"main", "dev">>
ValidCommits == <<"c1", "c2", "c3", "c4", "c5">>

get_enabled_repos(cfg) ==
    LET on == SelectSeq(cfg, LAMBDA r : r.enabled # "False")
    IN  [i \in DOMAIN on |-> on[i].full_name]

\* httpx.Response.raise_for_status raises unless the status is 2xx.
is_success(status) == status >= 200 /\ status <= 299

\* What a step of _sync_single_repo does next.
Continue(c) == [kind |-> "continue", cur |-> c]
Return(data) == [kind |-> "return", data |-> data]
Raise(msg) == [kind |-> "raise", msg |-> msg]

NoRequest == [repo |-> "none", request |-> "none",
              outcome |-> [kind |-> "none", status |-> 0, body |-> "none"]]
NoCur == [meta |-> "none", commits |-> "none"]

\* kova_repos_config.json when the file does not exist.
NoDocument == [kind |-> "missing", repositories |-> <<>>]

NotFoundData == [exists |-> FALSE, message |-> "not found - may need to be created"]

\* MetadataStep without the special case of a 404.
MetadataStepNo404(o) ==
    IF o.kind = "exception" THEN Raise("ConnectError")
    ELSE IF ~is_success(o.status) THEN Raise("HTTPStatusError")
    ELSE IF o.body \in {"not_json", "empty"} THEN Raise("JSONDecodeError")
    ELSE Continue([meta |-> o.body, commits |-> "none"])

\* MetadataStep without raise_for_status.
MetadataStepLenient(o) ==
    IF o.kind = "exception" THEN Raise("ConnectError")
    ELSE IF o.status = 404 THEN Return(NotFoundData)
    ELSE IF o.body \in {"not_json", "empty"} THEN Raise("JSONDecodeError")
    ELSE Continue([meta |-> o.body, commits |-> "none"])

\* The repo info request and what follows it up to the next await.
MetadataStep(o) ==
    IF o.kind = "exception" THEN Raise("ConnectError")
    ELSE IF o.status = 404 THEN Return(NotFoundData)
    ELSE IF ~is_success(o.status) THEN Raise("HTTPStatusError")
    ELSE IF o.body \in {"not_json", "empty"} THEN Raise("JSONDecodeError")
    ELSE Continue([meta |-> o.body, commits |-> "none"])

\* CommitsStep that treats a non-200 answer like the repo info request does.
CommitsStepRaising(c, o) ==
    IF o.kind = "exception" THEN Raise("ConnectError")
    ELSE IF ~is_success(o.status) THEN Raise("HTTPStatusError")
    ELSE IF o.body \in {"not_json", "empty"} THEN Raise("JSONDecodeError")
    ELSE Continue([c EXCEPT !.commits = o.body])

\* The commits request: a non-200 answer counts as the empty list.
CommitsStep(c, o) ==
    IF o.kind = "exception" THEN Raise("ConnectError")
    ELSE IF o.status # 200 THEN Continue([c EXCEPT !.commits = "empty"])
    ELSE IF o.body = "not_json" THEN Raise("JSONDecodeError")
    ELSE Continue([c EXCEPT !.commits = o.body])

\* The branches request and the assembly of the returned dict.
BranchesStep(c, o) ==
    IF o.kind = "exception" THEN Raise("ConnectError")
    ELSE IF o.status = 200 /\ o.body = "not_json" THEN Raise("JSONDecodeError")
    ELSE LET branches == IF o.status = 200 THEN o.body ELSE "empty"
         IN  IF c.meta = "wrong_shape" THEN Raise("AttributeError")
             ELSE IF branches = "wrong_shape" THEN Raise("KeyError")
             ELSE IF c.commits = "wrong_shape" THEN Raise("TypeError")
             ELSE Return([exists |-> TRUE,
                          branches |-> IF branches = "valid"
                                       THEN ValidBranches ELSE <<>>,
                          recent_commits |-> IF c.commits = "valid"
                                             THEN Len(ValidCommits) ELSE 0])

\* An except clause that names only httpx's own exceptions.
CaughtHttpxOnly(msg) == msg \in {"ConnectError", "HTTPStatusError"}

\* `except Exception` catches every exception a step raises.
Caught(msg) == TRUE

\* What sync_all_repositories stores for a call that returned / raised
\* (synced_at, a wall-clock reading, is left out).
SuccessResult(data) == [status |-> "success", data |-> data]
ErrorResult(msg) == [status |-> "error", error |-> msg]

\* The end of one iteration of the for loop: results[repo_full_name] = r.
Record(r) ==
    /\ results' = DictPut(results, repos[idx], r)
    /\ idx' = idx + 1
    /\ cur' = NoCur
    /\ pc' = IF idx + 1 > Len(repos) THEN "return" ELSE "meta"

Apply(step, next) ==
    CASE step.kind = "continue" ->
            /\ pc' = next
            /\ cur' = step.cur
            /\ UNCHANGED <<results, idx>>
      [] step.kind = "return" -> Record(SuccessResult(step.data))
      [] step.kind = "raise" ->
            IF Caught(step.msg)
            THEN Record(ErrorResult(step.msg))
            ELSE /\ pc' = "raised"
                 /\ UNCHANGED <<results, idx, cur>>

SyncStart ==
    /\ pc = "start"
    /\ repos' = get_enabled_repos(config)
    /\ results' = <<>>
    /\ idx' = 1
    /\ pc' = IF get_enabled_repos(config) = <<>> THEN "return" ELSE "meta"
    /\ UNCHANGED <<config, cur, requests, inflight, last, returned, driveVars,
                   importVars, configVars, extVars>>

\* The request a position of the call issues.
RequestAt(p) ==
    CASE p = "meta" -> "metadata"
      [] p = "commits" -> "commits"
      [] p = "branches" -> "branches"

\* A coroutine that issued requests without awaiting them.
awaited_never(outstanding) == TRUE

\* `await client.get(...)`: the coroutine is suspended from the request to
\* its answer, so it issues a request only when none of its own is
\* outstanding.
awaited(outstanding) == outstanding = <<>>

\* client.get(...) of the running _sync_single_repo call sends its request.
IssueRequest ==
    /\ pc \in {"meta", "commits", "branches"}
    /\ awaited(inflight)
    /\ inflight' = Append(inflight, <<repos[idx], RequestAt(pc)>>)
    /\ requests' = Append(requests, <<repos[idx], RequestAt(pc)>>)
    /\ UNCHANGED <<config, pc, repos, idx, results, cur, last, returned,
                   driveVars, importVars, configVars, extVars>>

\* The three awaits of _sync_single_repo: the outstanding request is
\* answered (or raises) and the call runs on to its next await or its end.
MetadataRequest ==
    /\ pc = "meta"
    /\ inflight # <<>>
    /\ \E o \in Outcomes :
          /\ last' = [repo |-> repos[idx], request |-> "metadata", outcome |-> o]
          /\ Apply(MetadataStep(o), "commits")
    /\ inflight' = Tail(inflight)
    /\ UNCHANGED <<config, repos, requests, returned, driveVars, importVars,
                   configVars, extVars>>

CommitsRequest ==
    /\ pc = "commits"
    /\ inflight # <<>>
    /\ \E o \in Outcomes :
          /\ last' = [repo |-> repos[idx], request |-> "commits", outcome |-> o]
          /\ Apply(CommitsStep(cur, o), "branches")
    /\ inflight' = Tail(inflight)
    /\ UNCHANGED <<config, repos, requests, returned, driveVars, importVars,
                   configVars, extVars>>

BranchesRequest ==
    /\ pc = "branches"
    /\ inflight # <<>>
    /\ \E o \in Outcomes :
          /\ last' = [repo |-> repos[idx], request |-> "branches", outcome |-> o]
          /\ Apply(BranchesStep(cur, o), "branches")
    /\ inflight' = Tail(inflight)
    /\ UNCHANGED <<config, repos, requests, returned, driveVars, importVars,
                   configVars, extVars>>

SyncReturn ==
    /\ pc = "return"
    /\ pc' = "done"
    /\ returned' = results
    /\ UNCHANGED <<config, repos, idx, results, cur, requests, inflight, last,
                   driveVars, importVars, configVars, extVars>>

SyncInit ==
    /\ config \in Configs
    /\ pc = "start"
    /\ repos = <<>>
    /\ idx = 1
    /\ results = <<>>
    /\ cur = NoCur
    /\ requests = <<>>
    /\ inflight = <<>>
    /\ last = NoRequest
    /\ returned = <<>>
    \* the Drive service is not called, the import script does not run,
    \* nothing is added to the document the configuration was read from
    /\ files = <<>> /\ op = "off" /\ arg = 0 /\ out = <<>> /\ plans = <<>>
    /\ document = [kind |-> "json", repositories |-> config]
    /\ writers = <<>> /\ shared = FALSE
    /\ listing = <<>> /\ ipc = "off" /\ analyzed = <<>> /\ duplicates = <<>>
    /\ ai = Idle /\ hook = Idle /\ organizer = Idle /\ limiter = Idle
    /\ validator = Idle /\ conv = Idle

SyncNext ==
    \/ SyncStart
    \/ IssueRequest
    \/ MetadataRequest
    \/ CommitsRequest
    \/ BranchesRequest
    \/ SyncReturn


-----------------------------------------------------------------------------
(* GoogleDriveKovaIntegration: categorize_file, detect_duplicates,         *)
(* identify_obsolete_files and create_file_manifest.                       *)

\* A file record is a dict with a name and a size; the other keys of a
\* Drive listing are not read by the methods modelled here.
File(name, size) == [name |-> name, size |-> size]
ListRecords == {File(<<"k","o","v","a","_","c","o","n","f","i","g",".","j","s","o","n">>, 1024),
                File(<<"k","o","v","a","_","c","o","n","f","i","g","_","c","o","p","y",".","j","s","o","n">>, 1024),
                File(<<"R","E","A","D","M","E",".","m","d">>, 2048),
                File(<<"K","o","v","a","-","C","o","n","f","i","g",".","j","s","o","n">>, 1024),
                File(<<"k","o","v","a","_","c","o","n","f","i","g",".","j","s","o","n">>, 2048),
                File(<<"m","a","i","n","_","v","2",".","p","y">>, 1024),
                File(<<"o","l","d"," ","n","o","t","e","s">>, 2048),
                File(<<"n","o","t","e","s">>, 2048)}

\* File names put together from fragments that the rules look for, that
\* they do not look for, and that normalisation changes.
Fragments == {<<"r","e","a","d","m","e">>, <<"R","E","A","D","M","E">>, <<"m","a","i","n">>, <<".","m","d">>, <<".","j","s","o","n">>, <<".","p","y">>,
              <<"c","o","n","f","i","g">>, <<"o","l","d">>, <<"v","2">>, <<"_">>}
FragmentNames == Concats(Fragments, MaxParts)

DriveInputs ==
    SeqUpTo(ListRecords, MaxFiles)
    \cup {<<File(n, 1024)>> : n \in FragmentNames}

CoreTerms == <<<<"s","y","s","t","e","m">>, <<"c","o","r","e">>, <<"m","a","i","n">>, <<"m","a","s","t","e","r">>>>
DocExtensions == <<<<".","m","d">>, <<".","t","x","t">>, <<".","d","o","c">>, <<".","p","d","f">>>>
DocTerms == <<<<"r","e","a","d","m","e">>, <<"d","o","c">>, <<"g","u","i","d","e">>, <<"m","a","n","u","a","l">>>>
ConfigExtensions == <<<<".","j","s","o","n">>, <<".","y","a","m","l">>, <<".","y","m","l">>, <<".","t","o","m","l">>, <<".","e","n","v">>, <<".","c","o","n","f","i","g">>>>
ConfigTerms == <<<<"c","o","n","f","i","g">>, <<"s","e","t","t","i","n","g","s">>, <<"e","n","v">>>>
CodeExtensions == <<<<".","p","y">>, <<".","j","s">>, <<".","t","s">>, <<".","g","o">>, <<".","r","s">>>>

\* categorize_file with the configuration rule tried before the
\* documentation rule.
categorize_file_swapped(file_info) ==
    LET filename == lower(file_info.name)
    IN  IF ContainsAny(filename, CoreTerms) THEN "core"
        ELSE IF ContainsAny(filename, ConfigExtensions)
                \/ ContainsAny(filename, ConfigTerms) THEN "configuration"
        ELSE IF ContainsAny(filename, DocExtensions)
                \/ ContainsAny(filename, DocTerms) THEN "documentation"
        ELSE IF ContainsAny(filename, CodeExtensions) THEN "code"
        ELSE "unknown"

\* categorize_file whose documentation rule looks at the extensions only.
categorize_file_no_terms(file_info) ==
    LET filename == lower(file_info.name)
    IN  IF ContainsAny(filename, CoreTerms) THEN "core"
        ELSE IF ContainsAny(filename, DocExtensions) THEN "documentation"
        ELSE IF ContainsAny(filename, ConfigExtensions)
                \/ ContainsAny(filename, ConfigTerms) THEN "configuration"
        ELSE IF ContainsAny(filename, CodeExtensions) THEN "code"
        ELSE "unknown"

categorize_file(file_info) ==
    LET filename == lower(file_info.name)
    IN  IF ContainsAny(filename, CoreTerms) THEN "core"
        ELSE IF ContainsAny(filename, DocExtensions)
                \/ ContainsAny(filename, DocTerms) THEN "documentation"
        ELSE IF ContainsAny(filename, ConfigExtensions)
                \/ ContainsAny(filename, ConfigTerms) THEN "configuration"
        ELSE IF ContainsAny(filename, CodeExtensions) THEN "code"
        ELSE "unknown"

normalized_name(name) == remove(remove(remove(lower(name), " "), "-"), "_")

\* A signature that leaves the name out.
signature_size_only(file_info) == str(file_info.size)

\* A signature that leaves the size out.
signature_name_only(file_info) == normalized_name(file_info.name)

signature(file_info) ==
    normalized_name(file_info.name) \o <<"_">> \o str(file_info.size)

\* One iteration of the loop of detect_duplicates; st holds the dicts
\* `duplicates` and `file_signatures`.
detect_step(st, file_info) ==
    LET sig == signature(file_info)
    IN  IF DictHas(st.file_signatures, sig)
        THEN LET seeded ==
                     IF ~DictHas(st.duplicates, sig)
                     THEN DictPut(st.duplicates, sig,
                                  <<DictGet(st.file_signatures, sig)>>)
                     ELSE st.duplicates
             IN  [st EXCEPT !.duplicates =
                     DictPut(seeded, sig,
                             Append(DictGet(seeded, sig), file_info))]
        ELSE [st EXCEPT !.file_signatures = DictPut(@, sig, file_info)]

RECURSIVE detect_loop(_, _)
detect_loop(st, fs) ==
    IF fs = <<>> THEN st
    ELSE detect_loop(detect_step(st, Head(fs)), Tail(fs))

detect_duplicates(fs) ==
    detect_loop([duplicates |-> <<>>, file_signatures |-> <<>>], fs).duplicates

\* The obsolescence keywords without "copy".
obsolete_keywords_no_copy == <<<<"o","l","d">>, <<"b","a","c","k","u","p">>, <<"t","e","m","p">>, <<"t","m","p">>, <<"d","r","a","f","t">>,
                               <<"t","e","s","t">>, <<"d","e","p","r","e","c","a","t","e","d">>, <<"a","r","c","h","i","v","e">>, <<"u","n","u","s","e","d">>>>

obsolete_keywords == <<<<"o","l","d">>, <<"b","a","c","k","u","p">>, <<"c","o","p","y">>, <<"t","e","m","p">>, <<"t","m","p">>, <<"d","r","a","f","t">>,
                       <<"t","e","s","t">>, <<"d","e","p","r","e","c","a","t","e","d">>, <<"a","r","c","h","i","v","e">>, <<"u","n","u","s","e","d">>>>

\* any(f"v{i}" in filename or f"_v{i}_" in filename for i in range(1, 10))
has_version_marker(filename) ==
    \E i \in 1..9 :
        \/ Contains(filename, <<"v">> \o str(i))
        \/ Contains(filename, <<"_", "v">> \o str(i) \o <<"_">>)

\* One iteration of the loop of identify_obsolete_files, without the
\* `continue` after the keyword check.
obsolete_step_no_continue(obsolete, file_info) ==
    LET filename == lower(file_info.name)
        first == IF ContainsAny(filename, obsolete_keywords)
                 THEN Append(obsolete, file_info) ELSE obsolete
    IN  IF has_version_marker(filename)
        THEN Append(first, file_info) ELSE first

\* One iteration of the loop of identify_obsolete_files.
obsolete_step(obsolete, file_info) ==
    LET filename == lower(file_info.name)
    IN  IF ContainsAny(filename, obsolete_keywords)
        THEN Append(obsolete, file_info)
        ELSE IF has_version_marker(filename)
             THEN Append(obsolete, file_info)
             ELSE obsolete

RECURSIVE obsolete_loop(_, _)
obsolete_loop(obsolete, fs) ==
    IF fs = <<>> THEN obsolete
    ELSE obsolete_loop(obsolete_step(obsolete, Head(fs)), Tail(fs))

identify_obsolete_files(fs) == obsolete_loop(<<>>, fs)

\* One iteration of the categorising loop of create_file_manifest that
\* assigns the list instead of appending to it.
categorize_step_overwrite(categories, file_info) ==
    DictPut(categories, categorize_file(file_info), <<file_info>>)

\* One iteration of the categorising loop of create_file_manifest.
categorize_step(categories, file_info) ==
    LET category == categorize_file(file_info)
        made == IF ~DictHas(categories, category)
                THEN DictPut(categories, category, <<>>)
                ELSE categories
    IN  DictPut(made, category, Append(DictGet(made, category), file_info))

RECURSIVE categorize_loop(_, _)
categorize_loop(categories, fs) ==
    IF fs = <<>> THEN categories
    ELSE categorize_loop(categorize_step(categories, Head(fs)), Tail(fs))

\* The recommended folder structure.  Every value under KOVA_MASTER_HUB is
\* a dict; of these dicts only the keys are read, so each is given by the
\* list of its keys.
generate_folder_structure ==
    << <<<<"K","O","V","A","_","M","A","S","T","E","R","_","H","U","B">>,
         << <<<<"0","1","_","C","O","R","E","_","S","Y","S","T","E","M">>, <<<<"r","e","p","o","s","i","t","o","r","i","e","s">>, <<"c","o","n","f","i","g">>, <<"s","e","c","r","e","t","s">>>> >>,
            <<<<"0","2","_","D","O","C","U","M","E","N","T","A","T","I","O","N">>,
              <<<<"a","r","c","h","i","t","e","c","t","u","r","e">>, <<"a","p","i">>, <<"g","u","i","d","e","s">>, <<"s","p","e","c","i","f","i","c","a","t","i","o","n","s">>>> >>,
            <<<<"0","3","_","I","N","T","E","G","R","A","T","I","O","N","S">>,
              <<<<"g","o","o","g","l","e","_","d","r","i","v","e">>, <<"g","i","t","h","u","b">>, <<"c","l","a","u","d","e">>, <<"e","x","t","e","r","n","a","l","_","a","p","i","s">>>> >>,
            <<<<"0","4","_","W","O","R","K","F","L","O","W","S">>,
              <<<<"a","u","t","o","m","a","t","i","o","n">>, <<"c","i","_","c","d">>, <<"d","e","p","l","o","y","m","e","n","t">>, <<"m","o","n","i","t","o","r","i","n","g">>>> >>,
            <<<<"0","5","_","D","A","T","A">>, <<<<"d","a","t","a","b","a","s","e","s">>, <<"s","t","o","r","a","g","e">>, <<"c","a","c","h","e">>, <<"l","o","g","s">>>> >>,
            <<<<"0","6","_","D","E","V","E","L","O","P","M","E","N","T">>,
              <<<<"a","c","t","i","v","e">>, <<"t","e","s","t","i","n","g">>, <<"p","r","o","t","o","t","y","p","e","s">>, <<"a","r","c","h","i","v","e">>>> >>,
            <<<<"0","7","_","O","P","E","R","A","T","I","O","N","S">>,
              <<<<"r","u","n","b","o","o","k","s">>, <<"i","n","c","i","d","e","n","t","s">>, <<"m","a","i","n","t","e","n","a","n","c","e">>, <<"b","a","c","k","u","p","s">>>> >>,
            <<<<"0","8","_","A","N","A","L","Y","T","I","C","S">>, <<<<"m","e","t","r","i","c","s">>, <<"r","e","p","o","r","t","s">>, <<"d","a","s","h","b","o","a","r","d","s">>>> >> >> >> >>

\* The manifest, without generated_at (a wall-clock reading) and without
\* main_files, which depends on no other key and on which no other key and
\* no plan depends.
create_file_manifest(fs) ==
    [total_files |-> Len(fs),
     categories |-> categorize_loop(<<>>, fs),
     duplicates |-> detect_duplicates(fs),
     obsolete |-> identify_obsolete_files(fs),
     recommended_structure |-> generate_folder_structure]

\* mapping.get(category, "06_DEVELOPMENT/active")
map_category_to_folder(category) ==
    CASE category = "core" -> <<"0","1","_","C","O","R","E","_","S","Y","S","T","E","M">>
      [] category = "documentation" -> <<"0","2","_","D","O","C","U","M","E","N","T","A","T","I","O","N">>
      [] category = "configuration" -> <<"0","1","_","C","O","R","E","_","S","Y","S","T","E","M","/","c","o","n","f","i","g">>
      [] category = "code" -> <<"0","6","_","D","E","V","E","L","O","P","M","E","N","T","/","a","c","t","i","v","e">>
      [] category = "unknown" -> <<"0","6","_","D","E","V","E","L","O","P","M","E","N","T","/","a","c","t","i","v","e">>
      [] OTHER -> <<"0","6","_","D","E","V","E","L","O","P","M","E","N","T","/","a","c","t","i","v","e">>

\* The folder list with the top-level folders only.
folder_creation_top_level(structure) ==
    [i \in DOMAIN structure |-> structure[i][1]]

\* The loop that fills plan["folder_creation"]: each main folder, then
\* "main/sub" for each of its sub-folders.
RECURSIVE folder_creation(_)
folder_creation(structure) ==
    IF structure = <<>> THEN <<>>
    ELSE LET main_folder == Head(structure)[1]
             subfolders == Head(structure)[2]
         IN  <<main_folder>>
             \o [j \in DOMAIN subfolders |->
                    main_folder \o <<"/">> \o subfolders[j]]
             \o folder_creation(Tail(structure))

\* The move action of one file; the records carry no "path" key, so
\* file_info.get("path", "root") is "root".
MoveAction(file_info, target_folder, category) ==
    [file |-> file_info.name, from |-> "root", to |-> target_folder,
     category |-> category]
ArchiveAction(file_info, reason) == [file |-> file_info.name, reason |-> reason]

\* The move actions of one category, without the test for obsolete files.
moves_of_category_all(manifest, category, fs) ==
    [i \in DOMAIN fs |->
        MoveAction(fs[i], map_category_to_folder(category), category)]

\* The inner loop of "plan file movements": the files of one category that
\* are not in manifest["obsolete"] (list membership compares the records).
moves_of_category(manifest, category, fs) ==
    LET kept == SelectSeq(fs, LAMBDA f : f \notin Range(manifest.obsolete))
    IN  [i \in DOMAIN kept |->
            MoveAction(kept[i], map_category_to_folder(category), category)]

RECURSIVE move_actions(_, _)
move_actions(manifest, categories) ==
    IF categories = <<>> THEN <<>>
    ELSE moves_of_category(manifest, Head(categories)[1], Head(categories)[2])
         \o move_actions(manifest, Tail(categories))

obsolete_archives(manifest) ==
    [i \in DOMAIN manifest.obsolete |->
        ArchiveAction(manifest.obsolete[i], "Identified as obsolete")]

\* The archive actions of one duplicate group when no member is kept.
archives_of_group_all(dup_group) ==
    [i \in DOMAIN dup_group |-> ArchiveAction(dup_group[i], "Duplicate")]

\* for dup_file in dup_group[1:]
archives_of_group(dup_group) ==
    [i \in DOMAIN Tail(dup_group) |->
        ArchiveAction(Tail(dup_group)[i], "Duplicate")]

RECURSIVE duplicate_archives(_)
duplicate_archives(dups) ==
    IF dups = <<>> THEN <<>>
    ELSE archives_of_group(Head(dups)[2]) \o duplicate_archives(Tail(dups))

generate_migration_plan(manifest) ==
    LET structure == DictGet(manifest.recommended_structure, <<"K","O","V","A","_","M","A","S","T","E","R","_","H","U","B">>)
        move == move_actions(manifest, manifest.categories)
        archive == obsolete_archives(manifest)
                   \o duplicate_archives(manifest.duplicates)
    IN  [total_actions |-> Len(move) + Len(archive),
         actions |-> [move |-> move, archive |-> archive, delete |-> <<>>,
                      merge |-> <<>>, rename |-> <<>>],
         folder_creation |-> folder_creation(structure),
         estimated_duration |-> "Unknown"]

CategorizeFile ==
    /\ op = "none"
    /\ \E i \in DOMAIN files :
          /\ arg' = i
          /\ out' = categorize_file(files[i])
    /\ op' = "categorize_file"
    /\ UNCHANGED <<files, plans, syncVars, importVars, configVars, extVars>>

DetectDuplicates ==
    /\ op = "none"
    /\ op' = "detect_duplicates"
    /\ out' = detect_duplicates(files)
    /\ UNCHANGED <<files, arg, plans, syncVars, importVars, configVars, extVars>>

IdentifyObsoleteFiles ==
    /\ op = "none"
    /\ op' = "identify_obsolete_files"
    /\ out' = identify_obsolete_files(files)
    /\ UNCHANGED <<files, arg, plans, syncVars, importVars, configVars, extVars>>

CreateFileManifest ==
    /\ op = "none"
    /\ op' = "create_file_manifest"
    /\ out' = create_file_manifest(files)
    /\ UNCHANGED <<files, arg, plans, syncVars, importVars, configVars, extVars>>

\* generate_migration_plan(manifest) for the manifest that
\* create_file_manifest returned; the plan may be generated again.
GenerateMigrationPlan ==
    /\ op = "create_file_manifest"
    /\ Len(plans) < MaxPlans
    /\ plans' = Append(plans, generate_migration_plan(out))
    /\ UNCHANGED <<files, op, arg, out, syncVars, importVars, configVars, extVars>>

DriveInit ==
    /\ files \in DriveInputs
    /\ op = "none"
    /\ arg = 0
    /\ out = <<>>
    /\ plans = <<>>
    \* no sync pass runs
    /\ config = <<>> /\ pc = "off" /\ repos = <<>> /\ idx = 1
    /\ results = <<>> /\ cur = NoCur /\ requests = <<>>
    /\ inflight = <<>>
    /\ last = NoRequest /\ returned = <<>>
    \* the import script does not run
    /\ listing = <<>> /\ ipc = "off" /\ analyzed = <<>> /\ duplicates = <<>>
    /\ document = NoDocument /\ writers = <<>> /\ shared = FALSE
    /\ ai = Idle /\ hook = Idle /\ organizer = Idle /\ limiter = Idle
    /\ validator = Idle /\ conv = Idle

DriveNext ==
    \/ CategorizeFile
    \/ DetectDuplicates
    \/ IdentifyObsoleteFiles
    \/ CreateFileManifest
    \/ GenerateMigrationPlan

SpecSync == SyncInit /\ [][SyncNext]_vars

-----------------------------------------------------------------------------
(* MultiRepoSyncService: _load_config and add_repo_to_config on the        *)
(* configuration document kova_repos_config.json.                          *)

\* The default configuration with five repositories.
get_default_config_five ==
    <<[full_name |-> <<"K","a","t","h","r","y","n","h","i","g","g","s","2","1","/","K","o","v","a","-","a","i","-","S","Y","S","T","E","M">>, enabled |-> "True"],
      [full_name |-> <<"K","a","t","h","r","y","n","h","i","g","g","s","2","1","/","k","o","v","a","-","a","i">>, enabled |-> "True"],
      [full_name |-> <<"K","a","t","h","r","y","n","h","i","g","g","s","2","1","/","k","o","v","a","-","a","i","-","s","i","t","e">>, enabled |-> "True"],
      [full_name |-> <<"K","a","t","h","r","y","n","h","i","g","g","s","2","1","/","k","o","v","a","-","a","i","-","m","e","m","0">>, enabled |-> "True"],
      [full_name |-> <<"K","a","t","h","r","y","n","h","i","g","g","s","2","1","/","k","o","v","a","-","a","i","-","d","o","c","e","n","g","i","n","e">>, enabled |-> "True"]>>

\* The "repositories" of _get_default_config.
get_default_config ==
    <<[full_name |-> <<"K","a","t","h","r","y","n","h","i","g","g","s","2","1","/","K","o","v","a","-","a","i","-","S","Y","S","T","E","M">>, enabled |-> "True"],
      [full_name |-> <<"K","a","t","h","r","y","n","h","i","g","g","s","2","1","/","k","o","v","a","-","a","i">>, enabled |-> "True"],
      [full_name |-> <<"K","a","t","h","r","y","n","h","i","g","g","s","2","1","/","k","o","v","a","-","a","i","-","s","i","t","e">>, enabled |-> "True"],
      [full_name |-> <<"K","a","t","h","r","y","n","h","i","g","g","s","2","1","/","k","o","v","a","-","a","i","-","m","e","m","0">>, enabled |-> "True"],
      [full_name |-> <<"K","a","t","h","r","y","n","h","i","g","g","s","2","1","/","k","o","v","a","-","a","i","-","d","o","c","e","n","g","i","n","e">>, enabled |-> "True"],
      [full_name |-> <<"K","a","t","h","r","y","n","h","i","g","g","s","2","1","/","K","o","v","a","-","A","I","-","S","c","r","i","b","b","l","e","s">>, enabled |-> "True"]>>

\* The document on disk: missing, not JSON ("unparsable": also an empty or
\* half-written file), or JSON with a "repositories" list.
Json(repositories) == [kind |-> "json", repositories |-> repositories]
Unparsable == [kind |-> "unparsable", repositories |-> <<>>]

\* open(config_path, 'r') and json.load raise unless the document is JSON.
readable(doc) == doc.kind = "json"

\* _load_config: the "repositories" of the document, or of the default
\* configuration when reading raised.
load_config(doc) ==
    IF readable(doc) THEN doc.repositories ELSE get_default_config

\* The identifiers add_repo_to_config is called with, and the documents it
\* finds.
AddIds == {<<"K","a","t","h","r","y","n","h","i","g","g","s","2","1","/","k","o","v","a","-","a","i">>, <<"K","a","t","h","r","y","n","h","i","g","g","s","2","1","/","k","o","v","a","-","a","i","-","n","e","w">>, <<"k","o","v","a","-","x">>}
Documents ==
    {NoDocument, Unparsable, Json(<<>>),
     Json(<<[full_name |-> <<"K","a","t","h","r","y","n","h","i","g","g","s","2","1","/","k","o","v","a","-","a","i">>, enabled |-> "True"]>>),
     Json(<<[full_name |-> <<"K","a","t","h","r","y","n","h","i","g","g","s","2","1","/","k","o","v","a","-","a","i">>, enabled |-> "False"],
            [full_name |-> <<"K","a","t","h","r","y","n","h","i","g","g","s","2","1","/","k","o","v","a","-","a","i","-","s","i","t","e">>,
             enabled |-> "missing"]>>)}

\* The two add_repo_to_config calls.
Writers == {"w1", "w2"}

\* What the existence check can do: raise, answer 404, answer with the
\* repository as a JSON dict ("valid"), with a JSON dict that has neither
\* a name nor a description ("error_json", as a 403 does), with JSON that
\* is not a dict ("wrong_shape") or with a body that is not JSON.
AddOutcomes ==
    {[kind |-> "exception", status |-> 0, body |-> "none"],
     [kind |-> "response", status |-> 404, body |-> "unread"],
     [kind |-> "response", status |-> 200, body |-> "valid"],
     [kind |-> "response", status |-> 403, body |-> "error_json"],
     [kind |-> "response", status |-> 200, body |-> "wrong_shape"],
     [kind |-> "response", status |-> 502, body |-> "not_json"]}

\* repo_full_name.split("/")[-1]
split_last(t) ==
    LET slashes == {i \in DOMAIN t : t[i] = "/"}
    IN  IF slashes = {} THEN t
        ELSE SubSeq(t, (CHOOSE i \in slashes : \A j \in slashes : j <= i) + 1,
                    Len(t))

\* The locals of a call that has not reached its first await.
NewCall(repo_full_name, repo_type) ==
    [pc |-> "check", repo_full_name |-> repo_full_name,
     repo_type |-> repo_type, repo_info |-> [pending |-> TRUE],
     config |-> <<>>, wrote |-> FALSE, ret |-> "none"]

\* `return` and the except clause, which returns False.
Returned(call, value) == [call EXCEPT !.pc = "done", !.ret = value]

\* The existence check, lines 182-196.
check_step(call, o) ==
    IF o.kind = "exception" THEN Returned(call, "False")
    ELSE IF o.status = 404
    THEN [call EXCEPT !.pc = "read",
                      !.repo_info = [name |-> split_last(call.repo_full_name),
                                     description |-> "Planned repository"]]
    ELSE IF o.body = "not_json" THEN Returned(call, "False")
    ELSE [call EXCEPT !.pc = "read",
                      !.repo_info =
                          CASE o.body = "valid" ->
                                  [name |-> split_last(call.repo_full_name),
                                   description |-> "GitHub description"]
                            [] o.body = "error_json" -> [message |-> "Forbidden"]
                            [] o.body = "wrong_shape" -> [list |-> TRUE]]

\* repo_info.get(key, default); repo_info must be a dict.
get(repo_info, key, default) ==
    IF key \in DOMAIN repo_info THEN repo_info[key] ELSE default

\* new_repo with "enabled": False.
new_repo_disabled(call) ==
    [name |-> get(call.repo_info, "name", split_last(call.repo_full_name)),
     full_name |-> call.repo_full_name,
     description |-> get(call.repo_info, "description", "Kova AI repository"),
     type |-> call.repo_type,
     enabled |-> "False",
     sync_priority |-> 3,
     features |-> <<>>]

\* The entry that is added, lines 209-217.
new_repo(call) ==
    [name |-> get(call.repo_info, "name", split_last(call.repo_full_name)),
     full_name |-> call.repo_full_name,
     description |-> get(call.repo_info, "description", "Kova AI repository"),
     type |-> call.repo_type,
     enabled |-> "True",
     sync_priority |-> 3,
     features |-> <<>>]

\* read_step that answers False for an identifier it finds.
read_step_rejecting(call, doc) ==
    IF ~readable(doc) THEN Returned(call, "False")
    ELSE IF \E i \in DOMAIN doc.repositories :
                doc.repositories[i].full_name = call.repo_full_name
    THEN Returned([call EXCEPT !.config = doc.repositories], "False")
    ELSE IF "list" \in DOMAIN call.repo_info
    THEN Returned([call EXCEPT !.config = doc.repositories], "False")
    ELSE [call EXCEPT !.pc = "open_w",
                      !.config = Append(doc.repositories, new_repo(call))]

\* read_step without the test for an existing entry.
read_step_no_check(call, doc) ==
    IF ~readable(doc) THEN Returned(call, "False")
    ELSE IF "list" \in DOMAIN call.repo_info
    THEN Returned([call EXCEPT !.config = doc.repositories], "False")
    ELSE [call EXCEPT !.pc = "open_w",
                      !.config = Append(doc.repositories, new_repo(call))]

\* Loading the document, the test for an existing entry and the append,
\* lines 198-219.  A repo_info that is not a dict has no get().
read_step(call, doc) ==
    IF ~readable(doc) THEN Returned(call, "False")
    ELSE IF \E i \in DOMAIN doc.repositories :
                doc.repositories[i].full_name = call.repo_full_name
    THEN Returned([call EXCEPT !.config = doc.repositories], "True")
    ELSE IF "list" \in DOMAIN call.repo_info
    THEN Returned([call EXCEPT !.config = doc.repositories], "False")
    ELSE [call EXCEPT !.pc = "open_w",
                      !.config = Append(doc.repositories, new_repo(call))]

\* json.dump of the new entry alone.
dumped_entry_only(call, doc) == Json(<<call.config[Len(call.config)]>>)

\* json.dump(config, f): the document becomes the local config, whatever
\* it held.
dumped(call, doc) == Json(call.config)

\* Lines 225-226, after the document was written.
write_done(call) == [Returned(call, "True") EXCEPT !.wrote = TRUE]

\* __init__: self.config = self._load_config()
LoadConfig ==
    /\ pc = "new"
    /\ config' = load_config(document)
    /\ pc' = "loaded"
    /\ UNCHANGED <<repos, idx, results, cur, requests, inflight, last, returned,
                   driveVars, importVars, configVars, extVars>>

\* The existence check of a call: the await of client.get and what
\* follows it inside the `async with`.
ExistenceCheck(w) ==
    /\ writers[w].pc = "check"
    /\ \E o \in AddOutcomes :
          writers' = [writers EXCEPT ![w] = check_step(@, o)]
    /\ UNCHANGED <<document, shared, syncVars, driveVars, importVars,
                   extVars>>

\* Lines 198-219.  No await follows the existence check, so calls that
\* are coroutines of one event loop run on to the return without giving
\* way; calls of different processes give way between the read, the open
\* for writing and the dump.
ReadDocument(w) ==
    /\ writers[w].pc = "read"
    /\ LET call == read_step(writers[w], document)
       IN  IF shared /\ call.pc = "open_w"
           THEN /\ document' = dumped(call, Unparsable)
                /\ writers' = [writers EXCEPT ![w] = write_done(call)]
           ELSE /\ writers' = [writers EXCEPT ![w] = call]
                /\ UNCHANGED document
    /\ UNCHANGED <<shared, syncVars, driveVars, importVars,
                   extVars>>

\* open(config_path, 'w') truncates the document.
OpenForWriting(w) ==
    /\ writers[w].pc = "open_w"
    /\ document' = Unparsable
    /\ writers' = [writers EXCEPT ![w].pc = "dump"]
    /\ UNCHANGED <<shared, syncVars, driveVars, importVars,
                   extVars>>

\* json.dump(config, f, indent=2), the close of the file and the return.
DumpDocument(w) ==
    /\ writers[w].pc = "dump"
    /\ document' = dumped(writers[w], document)
    /\ writers' = [writers EXCEPT ![w] = write_done(@)]
    /\ UNCHANGED <<shared, syncVars, driveVars, importVars,
                   extVars>>

ConfigInit ==
    /\ document \in Documents
    /\ shared \in BOOLEAN
    /\ writers \in [Writers -> {NewCall(id, "service") : id \in AddIds}]
    /\ config = <<>>
    /\ pc = "new"
    \* no sync pass runs, the Drive service is not called, the import
    \* script does not run
    /\ repos = <<>> /\ idx = 1 /\ results = <<>> /\ cur = NoCur
    /\ requests = <<>> /\ inflight = <<>> /\ last = NoRequest /\ returned = <<>>
    /\ files = <<>> /\ op = "off" /\ arg = 0 /\ out = <<>> /\ plans = <<>>
    /\ listing = <<>> /\ ipc = "off" /\ analyzed = <<>> /\ duplicates = <<>>
    /\ ai = Idle /\ hook = Idle /\ organizer = Idle /\ limiter = Idle
    /\ validator = Idle /\ conv = Idle

ConfigNext ==
    \/ LoadConfig
    \/ \E w \in Writers : ExistenceCheck(w)
    \/ \E w \in Writers : ReadDocument(w)
    \/ \E w \in Writers : OpenForWriting(w)
    \/ \E w \in Writers : DumpDocument(w)

SpecConfig == ConfigInit /\ [][ConfigNext]_vars

\* A call is between its read of the document and its return.
Active(w) == writers[w].pc \in {"read", "open_w", "dump"}

\* Calls that do not overlap: a call reads the document only after every
\* call that read it before has returned.
NonOverlapping == Cardinality({w \in Writers : Active(w)}) <= 1

SequentialNext ==
    \/ LoadConfig /\ NonOverlapping'
    \/ \E w \in Writers : ExistenceCheck(w) /\ NonOverlapping'
    \/ \E w \in Writers : ReadDocument(w) /\ NonOverlapping'
    \/ \E w \in Writers : OpenForWriting(w) /\ NonOverlapping'
    \/ \E w \in Writers : DumpDocument(w) /\ NonOverlapping'

\* add_repo_to_config calls made one after the other.
SpecSequential == ConfigInit /\ [][SequentialNext]_vars

SpecDrive == DriveInit /\ [][DriveNext]_vars

-----------------------------------------------------------------------------
(* GoogleDriveImporter (scripts/gdrive_import.py): run() analyses every    *)
(* record of the listing and then looks for duplicates.                    *)

KOVA_KEYWORDS == <<<<"k","o","v","a">>, <<"k","o","v","a","-","a","i">>, <<"k","o","v","a"," ","a","i">>, <<"k","o","v","a","a","i">>, <<"p","u","r","g","a","t","o","r","y">>,
                   <<"c","l","a","u","d","e">>, <<"m","u","l","t","i","-","r","e","p","o">>, <<"a","p","p","s","h","e","e","t">>, <<"w","e","b","h","o","o","k">>>>

\* CATEGORIES, in the order of the dict.
CATEGORIES ==
    << <<"CORE", <<<<"a","r","c","h","i","t","e","c","t","u","r","e">>, <<"a","p","i">>, <<"s","e","t","u","p">>, <<"d","e","p","l","o","y","m","e","n","t">>, <<"c","o","n","f","i","g">>>> >>,
       <<"REPO", <<<<"r","e","p","o","s","i","t","o","r","y">>, <<"g","i","t","h","u","b">>, <<"g","i","t">>, <<"c","o","m","m","i","t">>, <<"b","r","a","n","c","h">>>> >>,
       <<"INT", <<<<"i","n","t","e","g","r","a","t","i","o","n">>, <<"a","p","i","-","k","e","y">>, <<"o","a","u","t","h">>, <<"w","e","b","h","o","o","k">>, <<"c","r","e","d","e","n","t","i","a","l">>>> >>,
       <<"DATA", <<<<"d","a","t","a","b","a","s","e">>, <<"b","a","c","k","u","p">>, <<"e","x","p","o","r","t">>, <<"c","s","v">>, <<"j","s","o","n">>, <<"s","q","l">>>> >>,
       <<"DEV", <<<<"d","e","v">>, <<"d","e","v","e","l","o","p","m","e","n","t">>, <<"p","r","o","t","o","t","y","p","e">>, <<"e","x","p","e","r","i","m","e","n","t">>, <<"t","e","s","t">>>> >>,
       <<"OPS", <<<<"o","p","s">>, <<"o","p","e","r","a","t","i","o","n","s">>, <<"m","o","n","i","t","o","r">>, <<"l","o","g">>, <<"a","l","e","r","t">>, <<"s","e","c","u","r","i","t","y">>>> >>,
       <<"COM", <<<<"e","m","a","i","l">>, <<"m","e","e","t","i","n","g">>, <<"n","o","t","e","s">>, <<"d","i","s","c","u","s","s","i","o","n">>, <<"t","h","r","e","a","d">>>> >>,
       <<"RES", <<<<"t","u","t","o","r","i","a","l">>, <<"g","u","i","d","e">>, <<"r","e","f","e","r","e","n","c","e">>, <<"a","s","s","e","t">>, <<"t","e","m","p","l","a","t","e">>>> >> >>

\* A record of the Drive listing.  modifiedTime is held as the number of
\* hours it lies before the moment analyze_file reads the clock (negative:
\* after it); size is the decimal string the Drive API sends.  The keys
\* modifiedTime, mimeType and size may be missing.
AnalysisNames == {<<>>, <<"n","o","t","e","s">>, <<"k","o","v","a">>, <<"K","O","V","A","-","A","I"," ","p","l","a","n">>,
                  <<"k","o","v","a"," ","a","i"," ","k","o","v","a","a","i"," ","c","l","a","u","d","e"," ","w","e","b","h","o","o","k">>,
                  <<"k","o","v","a","-","a","i"," ","k","o","v","a"," ","a","i"," ","k","o","v","a","a","i"," ","p","u","r","g","a","t","o","r","y"," ","c","l","a","u","d","e"," ","m","u","l","t","i","-","r","e","p","o"," ","a","p","p","s","h","e","e","t"," ","w","e","b","h","o","o","k">>}
ModifiedHours == {-30, -1, 0, 719, 720, 2159, 2160, 4319, 4320, 9000}
MimeTypes == {<<"a","p","p","l","i","c","a","t","i","o","n","/","v","n","d",".","g","o","o","g","l","e","-","a","p","p","s",".","d","o","c","u","m","e","n","t">>, <<"t","e","x","t","/","p","l","a","i","n">>,
              <<"a","p","p","l","i","c","a","t","i","o","n","/","v","n","d",".","g","o","o","g","l","e","-","a","p","p","s",".","s","p","r","e","a","d","s","h","e","e","t">>, <<"a","p","p","l","i","c","a","t","i","o","n","/","j","s","o","n">>,
              <<"a","p","p","l","i","c","a","t","i","o","n","/","v","n","d",".","g","o","o","g","l","e","-","a","p","p","s",".","f","o","l","d","e","r">>, <<"i","m","a","g","e","/","p","n","g">>}
SizeStrings == {<<"0">>, <<"1","0","2","4">>, <<"1","0","2","5">>, <<"1","0","4","8","5","7","5","9">>, <<"1","0","4","8","5","7","6","0">>}

AnalysisRecords ==
    {[id |-> "f1", name |-> n] : n \in AnalysisNames}
    \cup [id : {"f1"}, name : AnalysisNames, modifiedTime : ModifiedHours]
    \cup [id : {"f1"}, name : AnalysisNames, mimeType : MimeTypes,
          size : SizeStrings]
    \cup [id : {"f1"}, name : AnalysisNames, modifiedTime : ModifiedHours,
          mimeType : MimeTypes, size : SizeStrings]

\* Names made of one-letter words, for the comparison of names.
TokenNames == {<<"a"," ","b"," ","c"," ","d">>, <<"a"," ","b"," ","c"," ","d"," ","e">>, <<"e","-","d","-","c","-","b","-","a">>, <<"A"," ","B"," ","C"," ","D">>,
               <<"a"," ","b"," ","c"," ","d"," ","e"," ","f">>, <<"a","_","b">>, <<"-","-","-">>}

ImportInputs ==
    SeqUpTo([id : {"f1"}, name : TokenNames], MaxListing)
    \cup {<<r>> : r \in AnalysisRecords}

\* int(s), s a string of decimal digits.
digit_value(c) == (CHOOSE i \in DOMAIN Digits : Digits[i] = c) - 1
RECURSIVE int(_)
int(s) == IF Len(s) = 1 THEN digit_value(s[1])
          ELSE 10 * int(SubSeq(s, 1, Len(s) - 1)) + digit_value(s[Len(s)])

min(a, b) == IF a < b THEN a ELSE b

\* sum(1 for kw in KOVA_KEYWORDS if kw in name)
keyword_matches(name) ==
    Cardinality({k \in DOMAIN KOVA_KEYWORDS : Contains(name, KOVA_KEYWORDS[k])})

keyword_points(name) == min(keyword_matches(name) * 2, 4)

\* (datetime.now(tz) - modified).days: whole days, rounded down.
recency_points(file_info) ==
    IF "modifiedTime" \in DOMAIN file_info
    THEN LET days_old == file_info.modifiedTime \div 24
         IN  IF days_old < 30 THEN 3
             ELSE IF days_old < 90 THEN 2
             ELSE IF days_old < 180 THEN 1
             ELSE 0
    ELSE 0

mime_type_of(file_info) ==
    IF "mimeType" \in DOMAIN file_info THEN file_info.mimeType ELSE <<>>

type_points(mime_type) ==
    IF Contains(mime_type, <<"d","o","c","u","m","e","n","t">>) \/ Contains(mime_type, <<"t","e","x","t">>) THEN 2
    ELSE IF Contains(mime_type, <<"s","p","r","e","a","d","s","h","e","e","t">>) \/ Contains(mime_type, <<"j","s","o","n">>)
         THEN 2
    ELSE IF Contains(mime_type, <<"f","o","l","d","e","r">>) THEN 1
    ELSE 0

size_of(file_info) ==
    IF "size" \in DOMAIN file_info THEN int(file_info.size) ELSE 0

size_points(size) == IF 1024 < size /\ size < 10 * 1024 * 1024 THEN 1 ELSE 0

\* The score without the cap on the keyword points and without the final
\* min(relevance_score, 10).
relevance_score_uncapped(file_info) ==
    keyword_matches(lower(file_info.name)) * 2
    + recency_points(file_info)
    + type_points(mime_type_of(file_info))
    + size_points(size_of(file_info))

\* The value stored under 'relevance_score'.
relevance_score(file_info) ==
    min(keyword_points(lower(file_info.name))
        + recency_points(file_info)
        + type_points(mime_type_of(file_info))
        + size_points(size_of(file_info)),
        10)

\* GoogleDriveImporter.categorize_file: the first category of CATEGORIES
\* one of whose keywords is in the lowercased name.
import_categorize_file(filename) ==
    LET filename_lower == lower(filename)
        hits == {k \in DOMAIN CATEGORIES :
                   ContainsAny(filename_lower, CATEGORIES[k][2])}
    IN  IF hits = {} THEN "UNKNOWN"
        ELSE CATEGORIES[CHOOSE k \in hits : \A m \in hits : k <= m][1]

\* The keys created, owners, parents and web_link are copied from the
\* listing and left out here.
analyze_file(file_info) ==
    LET name == lower(file_info.name)
    IN  [id |-> file_info.id,
         name |-> file_info.name,
         mime_type |-> mime_type_of(file_info),
         size |-> size_of(file_info),
         relevance_score |-> relevance_score(file_info),
         category |-> import_categorize_file(name),
         keywords_found |->
            SelectSeq(KOVA_KEYWORDS, LAMBDA kw : Contains(name, kw))]

\* \w: a letter, a digit or the underscore.
is_word_char(c) ==
    \/ \E i \in DOMAIN LowerCase : LowerCase[i] = c \/ UpperCase[i] = c
    \/ \E i \in DOMAIN Digits : Digits[i] = c
    \/ c = "_"

\* re.findall(r'\w+', s): the maximal runs of word characters, from the
\* left; w is the run being read.
RECURSIVE findall_words(_, _)
findall_words(s, w) ==
    IF s = <<>> THEN (IF w = <<>> THEN <<>> ELSE <<w>>)
    ELSE IF is_word_char(Head(s)) THEN findall_words(Tail(s), Append(w, Head(s)))
    ELSE (IF w = <<>> THEN <<>> ELSE <<w>>) \o findall_words(Tail(s), <<>>)

\* The float a similarity is, as the fraction num / den.
Fraction(num, den) == [num |-> num, den |-> den]

calculate_similarity(s1, s2) ==
    IF s1 = s2 THEN Fraction(1, 1)
    ELSE LET words1 == Range(findall_words(lower(s1), <<>>))
             words2 == Range(findall_words(lower(s2), <<>>))
         IN  IF words1 = {} \/ words2 = {} THEN Fraction(0, 1)
             ELSE Fraction(Cardinality(words1 \cap words2),
                           Cardinality(words1 \cup words2))

\* similarity >= 0.8
at_least_threshold(similarity) == 5 * similarity.num >= 4 * similarity.den

\* similarity > 0.8; the quotient of two small integers and the literal
\* 0.8 compare as floats the way 5 * num and 4 * den compare.
above_threshold(similarity) == 5 * similarity.num > 4 * similarity.den

\* Group by name: by_name[f['name'].lower()].append(f).
RECURSIVE group_by_name(_, _)
group_by_name(by_name, fs) ==
    IF fs = <<>> THEN by_name
    ELSE LET name == lower(Head(fs).name)
             made == IF ~DictHas(by_name, name)
                     THEN DictPut(by_name, name, <<>>) ELSE by_name
         IN  group_by_name(
                 DictPut(made, name, Append(DictGet(made, name), Head(fs))),
                 Tail(fs))

\* The exact-name groups, in the order of by_name.
exact_duplicates(by_name) ==
    LET many == SelectSeq(by_name, LAMBDA e : Len(e[2]) > 1)
    IN  [k \in DOMAIN many |->
            [type |-> "exact_name", name |-> many[k][1],
             count |-> Len(many[k][2]), files |-> many[k][2]]]

\* The inner loop over names[i+1:], from position j on.
RECURSIVE similar_from(_, _, _)
similar_from(by_name, i, j) ==
    IF j > Len(by_name) THEN <<>>
    ELSE LET name1 == by_name[i][1]
             name2 == by_name[j][1]
             similarity == calculate_similarity(name1, name2)
         IN  (IF above_threshold(similarity)
              THEN <<[type |-> "similar_name", similarity |-> similarity,
                      name1 |-> name1, name2 |-> name2,
                      files |-> by_name[i][2] \o by_name[j][2]]>>
              ELSE <<>>)
             \o similar_from(by_name, i, j + 1)

\* The outer loop over enumerate(names), from position i on.
RECURSIVE similar_duplicates(_, _)
similar_duplicates(by_name, i) ==
    IF i > Len(by_name) THEN <<>>
    ELSE similar_from(by_name, i, i + 1) \o similar_duplicates(by_name, i + 1)

find_duplicates(fs) ==
    LET by_name == group_by_name(<<>>, fs)
    IN  exact_duplicates(by_name) \o similar_duplicates(by_name, 1)

\* run(): an empty listing ends the run.
SearchKovaFiles ==
    /\ ipc = "search"
    /\ ipc' = IF listing = <<>> THEN "done" ELSE "analyze"
    /\ UNCHANGED <<listing, analyzed, duplicates, syncVars, driveVars, configVars, extVars>>

\* run(): one iteration of the loop that analyses the listing.
AnalyzeFile ==
    /\ ipc = "analyze"
    /\ analyzed' = Append(analyzed, analyze_file(listing[Len(analyzed) + 1]))
    /\ ipc' = IF Len(analyzed) + 1 = Len(listing)
              THEN "find_duplicates" ELSE "analyze"
    /\ UNCHANGED <<listing, duplicates, syncVars, driveVars, configVars, extVars>>

\* run(): find_duplicates(analyzed_files); the report and the saved
\* inventory only read the two lists.
FindDuplicates ==
    /\ ipc = "find_duplicates"
    /\ duplicates' = find_duplicates(analyzed)
    /\ ipc' = "done"
    /\ UNCHANGED <<listing, analyzed, syncVars, driveVars, configVars, extVars>>

ImportInit ==
    /\ listing \in ImportInputs
    /\ ipc = "search"
    /\ analyzed = <<>>
    /\ duplicates = <<>>
    \* no sync pass runs, the Drive service is not called
    /\ config = <<>> /\ pc = "off" /\ repos = <<>> /\ idx = 1
    /\ results = <<>> /\ cur = NoCur /\ requests = <<>>
    /\ inflight = <<>>
    /\ last = NoRequest /\ returned = <<>>
    /\ files = <<>> /\ op = "off" /\ arg = 0 /\ out = <<>> /\ plans = <<>>
    /\ document = NoDocument /\ writers = <<>> /\ shared = FALSE
    /\ ai = Idle /\ hook = Idle /\ organizer = Idle /\ limiter = Idle
    /\ validator = Idle /\ conv = Idle

ImportNext ==
    \/ SearchKovaFiles
    \/ AnalyzeFile
    \/ FindDuplicates

SpecImport == ImportInit /\ [][ImportNext]_vars

-----------------------------------------------------------------------------
(* Requests for AI analysis: MultiRepoSyncService.sync_with_claude,        *)
(* OpenAIClient.chat_completion and the /ai/command endpoint.              *)

\* An API key as the environment or the settings give it: None, or a
\* string.
NoKey == [none |-> TRUE, text |-> <<>>]
Key(text) == [none |-> FALSE, text |-> text]
ApiKeys == {NoKey, Key(<<>>), Key(<<"s","k","-","1">>), Key(<<"k","e","y","-","1">>)}

\* `not key` is false for a string that is not empty.
truthy(key) == ~key.none /\ key.text # <<>>

\* str.startswith
startswith(s, prefix) ==
    Len(s) >= Len(prefix) /\ SubSeq(s, 1, Len(prefix)) = prefix

\* OpenAIClient.is_configured
is_configured(api_key) == truthy(api_key) /\ startswith(api_key.text, <<"s","k","-">>)

\* The functions a request for AI analysis enters by, the actions of a
\* ClaudeCommand, what the provider and GitHub answer, and the two
\* behaviours of str() on an HTTPException built with keyword arguments:
\* "status: detail" where the framework defines __str__, "" where it does
\* not.
Entries == {"service", "openai", "endpoint"}
CommandActions == {"sync", "general"}
ProviderOutcomes == {"200", "500", "exception"}
Frameworks == {"with_str", "without_str"}

NoResponse == [kind |-> "none"]
\* A dict returned to a Python caller, and an HTTP answer of the endpoint.
ReturnedDict(status, error) == [kind |-> "dict", status |-> status, error |-> error]
HttpAnswer(status_code, detail) ==
    [kind |-> "http", status_code |-> status_code, detail |-> detail]

\* str(e) for e = HTTPException(status_code=..., detail=...)
str_http_exception(framework, status_code, detail) ==
    IF framework = "with_str" THEN str(status_code) \o <<":"," ">> \o detail ELSE <<>>

\* ai_command: `except Exception as e: raise HTTPException(500, str(e))`
\* also catches the HTTPException of the handlers it calls.
caught_by_ai_command(framework, status_code, detail) ==
    HttpAnswer(500, str_http_exception(framework, status_code, detail))

\* sync_with_claude of the service up to its await: the answer when the key
\* is not configured, "post" when the request to the provider goes out.
service_sync_with_claude(api_key) ==
    IF ~truthy(api_key)
    THEN ReturnedDict("none", <<"C","l","a","u","d","e"," ","A","P","I"," ","k","e","y"," ","n","o","t"," ","c","o","n","f","i","g","u","r","e","d">>)
    ELSE [kind |-> "post"]

\* chat_completion up to its await.
chat_completion(api_key) ==
    IF ~is_configured(api_key)
    THEN ReturnedDict("false", <<"O","p","e","n","A","I"," ","A","P","I"," ","k","e","y"," ","n","o","t"," ","c","o","n","f","i","g","u","r","e","d">>)
    ELSE [kind |-> "post"]

\* ai_command up to its first await.
ai_command(framework, api_key, action) ==
    IF action = "sync"
    THEN IF ~truthy(api_key)
         THEN caught_by_ai_command(framework, 400,
                                   <<"A","n","t","h","r","o","p","i","c"," ","A","P","I"," ","k","e","y"," ","n","o","t"," ","c","o","n","f","i","g","u","r","e","d">>)
         ELSE [kind |-> "fetch"]
    ELSE HttpAnswer(200, <<"P","r","o","c","e","s","s","e","d"," ","c","o","m","m","a","n","d">>)

\* The call is made: the function runs to its return or its first await.
AiCall ==
    /\ ai.pc = "called"
    /\ LET r == CASE ai.entry = "service" -> service_sync_with_claude(ai.key)
                  [] ai.entry = "openai" -> chat_completion(ai.key)
                  [] ai.entry = "endpoint" ->
                        ai_command(ai.framework, ai.key, ai.action)
       IN  ai' = CASE r.kind = "post" ->
                        [ai EXCEPT !.pc = "posted",
                                   !.posts = Append(@, ai.entry)]
                   [] r.kind = "fetch" -> [ai EXCEPT !.pc = "fetching"]
                   [] OTHER -> [ai EXCEPT !.pc = "done", !.response = r]
    /\ UNCHANGED <<syncVars, driveVars, importVars, configVars, hook,
                   organizer, limiter, validator, conv>>

\* fetch_repository_data of the endpoint: GitHub answers, or the request
\* raises and ai_command answers 500.
AiFetch ==
    /\ ai.pc = "fetching"
    /\ \E o \in {"200", "exception"} :
          ai' = IF o = "exception"
                THEN [ai EXCEPT !.pc = "done",
                                !.response = HttpAnswer(500, <<"C","o","n","n","e","c","t","E","r","r","o","r">>)]
                ELSE [ai EXCEPT !.pc = "posted",
                                !.posts = Append(@, ai.entry)]
    /\ UNCHANGED <<syncVars, driveVars, importVars, configVars, hook,
                   organizer, limiter, validator, conv>>

\* The provider answers the POST, or the POST raises.
AiAnswer ==
    /\ ai.pc = "posted"
    /\ \E o \in ProviderOutcomes :
          ai' = [ai EXCEPT
                   !.pc = "done",
                   !.response =
                       CASE ai.entry = "service" ->
                               IF o = "200" THEN ReturnedDict("success", <<>>)
                               ELSE IF o = "500"
                               THEN ReturnedDict("error", <<"C","l","a","u","d","e"," ","A","P","I"," ","r","e","t","u","r","n","e","d"," ","5","0","0">>)
                               ELSE ReturnedDict("error", <<"C","o","n","n","e","c","t","E","r","r","o","r">>)
                         [] ai.entry = "openai" ->
                               IF o = "200" THEN ReturnedDict("true", <<>>)
                               ELSE IF o = "500"
                               THEN ReturnedDict("false", <<"H","T","T","P"," ","5","0","0",":"," ">>)
                               ELSE ReturnedDict("false", <<"C","o","n","n","e","c","t","E","r","r","o","r">>)
                         [] ai.entry = "endpoint" ->
                               IF o = "200" THEN HttpAnswer(200, <<"s","u","c","c","e","s","s">>)
                               ELSE IF o = "500"
                               THEN HttpAnswer(200, <<"E","r","r","o","r"," ","c","o","m","m","u","n","i","c","a","t","i","n","g"," ","w","i","t","h"," ","C","l","a","u","d","e",":"," ","5","0","0">>)
                               ELSE HttpAnswer(500, <<"C","o","n","n","e","c","t","E","r","r","o","r">>)]
    /\ UNCHANGED <<syncVars, driveVars, importVars, configVars, hook,
                   organizer, limiter, validator, conv>>

AiInit ==
    /\ ai \in [pc : {"called"}, entry : Entries, key : ApiKeys,
               action : CommandActions, framework : Frameworks,
               posts : {<<>>}, response : {NoResponse}]
    \* nothing else runs
    /\ config = <<>> /\ pc = "off" /\ repos = <<>> /\ idx = 1
    /\ results = <<>> /\ cur = NoCur /\ requests = <<>> /\ inflight = <<>>
    /\ last = NoRequest /\ returned = <<>>
    /\ files = <<>> /\ op = "off" /\ arg = 0 /\ out = <<>> /\ plans = <<>>
    /\ listing = <<>> /\ ipc = "off" /\ analyzed = <<>> /\ duplicates = <<>>
    /\ document = NoDocument /\ writers = <<>> /\ shared = FALSE
    /\ hook = Idle /\ organizer = Idle /\ limiter = Idle
    /\ validator = Idle /\ conv = Idle

AiNext ==
    \/ AiCall
    \/ AiFetch
    \/ AiAnswer

SpecAI == AiInit /\ [][AiNext]_vars

-----------------------------------------------------------------------------
(* The GitHub webhook endpoint: verify_github_signature and                *)
(* github_webhook (kova-ai/app/api/webhooks.py).                           *)

\* GITHUB_WEBHOOK_SECRET: "" when the variable is not set.
Secrets == {"", "s3cret"}

\* The bodies of a delivery: a JSON object, JSON that is not an object,
\* text that is not JSON, no bytes at all, bytes that are not UTF-8.
RequestBodies == {"json_object", "json_array", "not_json", "empty",
                  "not_utf8"}

\* hmac.new(key, msg, digestmod).hexdigest(): digests are equal exactly
\* when algorithm, key and message are.
hexdigest(algorithm, key, msg) ==
    [algorithm |-> algorithm, key |-> key, msg |-> msg]
\* A signature text with a character outside ASCII.
NonAscii == [algorithm |-> "none", key |-> "none", msg |-> "non_ascii"]

\* The X-Hub-Signature-256 header: None, or a text; `parts` is the number
\* of pieces signature_header.split("=") gives.
NoHeader == [kind |-> "None", parts |-> 0, hash_algorithm |-> "none",
             github_signature |-> NonAscii]
EmptyHeader == [kind |-> "text", parts |-> 0, hash_algorithm |-> "none",
                github_signature |-> NonAscii]
Header(parts, hash_algorithm, github_signature) ==
    [kind |-> "text", parts |-> parts, hash_algorithm |-> hash_algorithm,
     github_signature |-> github_signature]

\* The headers a delivery of the body b can carry: none, empty, signed
\* with the secret (SHA-256 or SHA-1, the latter also under another
\* prefix), signed with another key, the signature of another body, a
\* text without "=", a text with two "=", a signature that is not ASCII.
SignatureHeaders(b) ==
    {NoHeader, EmptyHeader,
     Header(2, "sha256", hexdigest("sha256", "s3cret", b)),
     Header(2, "sha1", hexdigest("sha1", "s3cret", b)),
     Header(2, "md5", hexdigest("sha1", "s3cret", b)),
     Header(2, "sha256", hexdigest("sha256", "guess", b)),
     Header(2, "sha256", hexdigest("sha256", "s3cret", "replayed")),
     Header(2, "sha256", hexdigest("sha256", "", b)),
     Header(1, "none", NonAscii),
     Header(3, "sha256", hexdigest("sha256", "s3cret", b)),
     Header(2, "sha256", NonAscii)}

\* verify_github_signature: "True", "False", or the exception it raises
\* (split giving other than two pieces; compare_digest on a text that is
\* not ASCII).
verify_github_signature(secret, payload_body, signature_header) ==
    IF secret = "" THEN "True"
    ELSE IF signature_header.kind = "None" \/ signature_header.parts = 0
    THEN "False"
    ELSE IF signature_header.parts # 2 THEN "ValueError"
    ELSE LET algorithm == IF signature_header.hash_algorithm = "sha256"
                          THEN "sha256" ELSE "sha1"
             expected_signature == hexdigest(algorithm, secret, payload_body)
         IN  IF signature_header.github_signature = NonAscii
             THEN "TypeError"
             ELSE IF expected_signature = signature_header.github_signature
             THEN "True" ELSE "False"

\* json.loads(body.decode()): the payload, or the exception raised.
loads_decode(body) ==
    CASE body = "not_utf8" -> "UnicodeDecodeError"
      [] body \in {"not_json", "empty"} -> "JSONDecodeError"
      [] OTHER -> "payload"

\* What a handler's run leaves: the answer, whether json.loads was
\* reached, and the background tasks added.
Handled(status_code, detail, parsed, tasks) ==
    [status_code |-> status_code, detail |-> detail, parsed |-> parsed,
     tasks |-> tasks]

\* The two except clauses of github_webhook; an HTTPException raised in
\* the try block is an Exception too.
webhook_except(framework, e, parsed) ==
    CASE e.type = "JSONDecodeError" ->
            Handled(400, <<"I","n","v","a","l","i","d"," ","J","S","O","N"," ","p","a","y","l","o","a","d">>, parsed, <<>>)
      [] e.type = "HTTPException" ->
            Handled(500, str_http_exception(framework, e.status_code, e.detail),
                    parsed, <<>>)
      [] OTHER -> Handled(500, e.detail, parsed, <<>>)

\* github_webhook after `body = await request.body()`.
github_webhook(framework, secret, body, x_hub_signature_256) ==
    LET verified == verify_github_signature(secret, body, x_hub_signature_256)
        payload == loads_decode(body)
    IN  IF verified \notin {"True", "False"}
        THEN webhook_except(framework,
                            [type |-> verified, detail |-> <<"r","a","i","s","e","d">>], FALSE)
        ELSE IF verified = "False"
        THEN webhook_except(framework,
                            [type |-> "HTTPException", status_code |-> 401,
                             detail |-> <<"I","n","v","a","l","i","d"," ","s","i","g","n","a","t","u","r","e">>], FALSE)
        ELSE IF payload # "payload"
        THEN webhook_except(framework, [type |-> payload, detail |-> <<"i","n","v","a","l","i","d">>],
                            TRUE)
        ELSE Handled(200, <<"a","c","c","e","p","t","e","d">>, TRUE, <<body>>)

\* body = await request.body()
ReceiveBody ==
    /\ hook.pc = "request"
    /\ hook' = [hook EXCEPT !.pc = "body"]
    /\ UNCHANGED <<syncVars, driveVars, importVars, configVars, ai,
                   organizer, limiter, validator, conv>>

\* The handler runs from the verification to its return or raise.
HandleWebhook ==
    /\ hook.pc = "body"
    /\ hook' = [hook EXCEPT
                  !.pc = "answered",
                  !.verified = verify_github_signature(hook.secret, hook.body,
                                                       hook.header),
                  !.answer = github_webhook(hook.framework, hook.secret,
                                            hook.body, hook.header)]
    /\ UNCHANGED <<syncVars, driveVars, importVars, configVars, ai,
                   organizer, limiter, validator, conv>>

\* After the answer is sent the background tasks run.
RunBackgroundTasks ==
    /\ hook.pc = "answered"
    /\ hook.answer.tasks # <<>>
    /\ hook' = [hook EXCEPT !.pc = "processed", !.processed = hook.answer.tasks]
    /\ UNCHANGED <<syncVars, driveVars, importVars, configVars, ai,
                   organizer, limiter, validator, conv>>

WebhookInit ==
    /\ \E b \in RequestBodies :
          hook \in [pc : {"request"}, secret : Secrets, body : {b},
                    header : SignatureHeaders(b), framework : Frameworks,
                    verified : {"none"},
                    answer : {Handled(0, <<>>, FALSE, <<>>)},
                    processed : {<<>>}]
    \* nothing else runs
    /\ config = <<>> /\ pc = "off" /\ repos = <<>> /\ idx = 1
    /\ results = <<>> /\ cur = NoCur /\ requests = <<>> /\ inflight = <<>>
    /\ last = NoRequest /\ returned = <<>>
    /\ files = <<>> /\ op = "off" /\ arg = 0 /\ out = <<>> /\ plans = <<>>
    /\ listing = <<>> /\ ipc = "off" /\ analyzed = <<>> /\ duplicates = <<>>
    /\ document = NoDocument /\ writers = <<>> /\ shared = FALSE
    /\ ai = Idle /\ organizer = Idle /\ limiter = Idle
    /\ validator = Idle /\ conv = Idle

WebhookNext ==
    \/ ReceiveBody
    \/ HandleWebhook
    \/ RunBackgroundTasks

SpecWebhook == WebhookInit /\ [][WebhookNext]_vars

-----------------------------------------------------------------------------
(* FileOrganizer and its main() (scripts/file_organizer.py).               *)

\* The records of an inventory: dicts with a name and, each optional, a
\* category, a relevance_score and a modified time, which the import
\* script writes as None for a file without modifiedTime.  The categories
\* are ones for which determine_destination has no subcategory rule.
InventoryNames == {<<"k","o","v","a","-","s","i","t","e"," ","p","l","a","n",".","m","d">>, <<"n","o","t","e","s",".","t","x","t">>}
PyNone == [none |-> TRUE, text |-> <<>>]
PyStr(text) == [none |-> FALSE, text |-> text]
ModifiedTimes == {PyStr(<<"2","0","2","5","-","0","1","-","3","1","T","1","0",":","0","0",":","0","0","Z">>), PyNone}
InventoryRecords ==
    UNION {[name : InventoryNames, modified : ModifiedTimes],
           [name : InventoryNames, modified : ModifiedTimes,
            category : {"REPO"}],
           [name : InventoryNames, modified : ModifiedTimes,
            relevance_score : {2, 9}],
           [name : InventoryNames, modified : ModifiedTimes,
            category : {"REPO"}, relevance_score : {2, 9}]}
Inventories == SeqUpTo(InventoryRecords, MaxInventory)

\* file_info.get('relevance_score', default)
relevance_or(file_info, default) ==
    IF "relevance_score" \in DOMAIN file_info THEN file_info.relevance_score
    ELSE default

\* inventory.sort(key=lambda x: x.get('relevance_score', 0), reverse=True):
\* a stable sort, the records of one score keep their order.
RECURSIVE insert_sorted(_, _)
insert_sorted(sorted, file_info) ==
    IF sorted = <<>> THEN <<file_info>>
    ELSE IF relevance_or(Head(sorted), 0) >= relevance_or(file_info, 0)
    THEN <<Head(sorted)>> \o insert_sorted(Tail(sorted), file_info)
    ELSE <<file_info>> \o sorted
RECURSIVE sort_by_relevance(_, _)
sort_by_relevance(sorted, inventory) ==
    IF inventory = <<>> THEN sorted
    ELSE sort_by_relevance(insert_sorted(sorted, Head(inventory)),
                           Tail(inventory))

\* determine_destination for a record of category REPO or without one.
determine_destination(file_info) ==
    IF "category" \in DOMAIN file_info /\ file_info.category = "REPO"
    THEN <<"0","2","-","R","e","p","o","s","i","t","o","r","i","e","s">>
    ELSE <<"0","9","-","P","u","r","g","a","t","o","r","y","/","T","o","-","R","e","v","i","e","w","/","N","e","e","d","s","-","C","a","t","e","g","o","r","i","z","a","t","i","o","n">>

\* generate_new_filename: date, category and project; the description,
\* version and extension are taken from the name and stand here as the
\* name itself.  A modified time of None cannot be sliced.
generate_new_filename(file_info) ==
    IF file_info.modified.none THEN [raised |-> "TypeError"]
    ELSE [raised |-> "no",
          date |-> SubSeq(file_info.modified.text, 1, 10),
          category |-> IF "category" \in DOMAIN file_info
                       THEN file_info.category ELSE "UNKNOWN",
          project |-> IF Contains(lower(file_info.name), <<"m","e","m","0">>)
                      THEN "Kova-Mem0"
                      ELSE IF Contains(lower(file_info.name), <<"s","i","t","e">>)
                      THEN "Kova-Site"
                      ELSE "Kova-AI",
          name |-> file_info.name]

NoSourcePath == "None"

\* organize_from_inventory calls self.organize_file(file_info): the
\* parameter source_path keeps its default.
source_path_of(file_info) == NoSourcePath

\* organize_file(file_info, source_path), with `moves` telling whether
\* shutil.move succeeds: the statistics and the moved files after it, or
\* the exception that leaves it.
organize_file(self, file_info, source_path, moves) ==
    LET processed == [self EXCEPT !.stats.processed = @ + 1]
        new_filename == generate_new_filename(file_info)
        destination_folder ==
            IF relevance_or(file_info, 5) < 5
            THEN <<"0","9","-","P","u","r","g","a","t","o","r","y","/","T","o","-","R","e","v","i","e","w","/","N","e","e","d","s","-","C","a","t","e","g","o","r","i","z","a","t","i","o","n">>
            ELSE determine_destination(file_info)
    IN  IF new_filename.raised # "no"
        THEN [processed EXCEPT !.pc = "raised"]
        ELSE IF ~self.dry_run /\ source_path # NoSourcePath
        THEN IF moves
             THEN [processed EXCEPT
                     !.stats.moved = @ + 1,
                     !.moved = Append(@, [file |-> file_info.name,
                                          folder |-> destination_folder,
                                          new_filename |-> new_filename])]
             ELSE [processed EXCEPT !.stats.errors = @ + 1]
        ELSE processed

\* main() and run() up to the loop of organize_from_inventory: dry_run is
\* `not args.execute`, the folders are made unless dry_run, the inventory
\* is loaded and sorted.
OrganizerRun ==
    /\ organizer.pc = "main"
    /\ organizer' =
          [organizer EXCEPT
             !.dry_run = ~organizer.execute,
             !.folders_created = organizer.execute,
             !.inventory = IF organizer.inventory_exists
                           THEN sort_by_relevance(<<>>, organizer.inventory)
                           ELSE organizer.inventory,
             !.pc = IF organizer.inventory_exists /\ organizer.inventory # <<>>
                    THEN "loop" ELSE "summary"]
    /\ UNCHANGED <<syncVars, driveVars, importVars, configVars, ai, hook,
                   limiter, validator, conv>>

\* One turn of the loop of organize_from_inventory.
OrganizeFile ==
    /\ organizer.pc = "loop"
    /\ \E moves \in BOOLEAN :
          LET file_info == organizer.inventory[organizer.i]
              after == organize_file(organizer, file_info,
                                     source_path_of(file_info), moves)
          IN  organizer' =
                 IF after.pc = "raised" THEN after
                 ELSE [after EXCEPT
                         !.i = @ + 1,
                         !.pc = IF organizer.i = Len(organizer.inventory)
                                THEN "summary" ELSE "loop"]
    /\ UNCHANGED <<syncVars, driveVars, importVars, configVars, ai, hook,
                   limiter, validator, conv>>

\* print_summary and the return of main().
PrintSummary ==
    /\ organizer.pc = "summary"
    /\ organizer' = [organizer EXCEPT !.pc = "done"]
    /\ UNCHANGED <<syncVars, driveVars, importVars, configVars, ai, hook,
                   limiter, validator, conv>>

OrganizerInit ==
    /\ organizer \in [pc : {"main"}, execute : BOOLEAN,
                      inventory_exists : BOOLEAN, inventory : Inventories,
                      dry_run : {TRUE}, folders_created : {FALSE}, i : {1},
                      stats : {[processed |-> 0, moved |-> 0, errors |-> 0]},
                      moved : {<<>>}]
    \* nothing else runs
    /\ config = <<>> /\ pc = "off" /\ repos = <<>> /\ idx = 1
    /\ results = <<>> /\ cur = NoCur /\ requests = <<>> /\ inflight = <<>>
    /\ last = NoRequest /\ returned = <<>>
    /\ files = <<>> /\ op = "off" /\ arg = 0 /\ out = <<>> /\ plans = <<>>
    /\ listing = <<>> /\ ipc = "off" /\ analyzed = <<>> /\ duplicates = <<>>
    /\ document = NoDocument /\ writers = <<>> /\ shared = FALSE
    /\ ai = Idle /\ hook = Idle /\ limiter = Idle
    /\ validator = Idle /\ conv = Idle

OrganizerNext ==
    \/ OrganizerRun
    \/ OrganizeFile
    \/ PrintSummary

SpecOrganizer == OrganizerInit /\ [][OrganizerNext]_vars

-----------------------------------------------------------------------------
(* RateLimitMiddleware (kova-ai/app/security/middleware.py).               *)

\* request.client.host of the requests.
ClientIps == {"10.0.0.1", "10.0.0.2"}

\* The timestamps of a list that are inside the window that ends now.
recent(timestamps, current_time) ==
    SelectSeq(timestamps, LAMBDA timestamp : timestamp > current_time - period)

\* "Clean old entries": the clients with a timestamp inside the window.
cleaned(clients, current_time) ==
    SelectSeq(clients, LAMBDA e : recent(e[2], current_time) # <<>>)

\* The limit test with > in place of >=.
over_limit_by_one(recent_requests) == Len(recent_requests) > calls

\* if len(recent_requests) >= self.calls
over_limit(recent_requests) == Len(recent_requests) >= calls

\* dispatch up to `await call_next(request)` or the raise of the 429: no
\* await comes before, so the dispatches of one event loop run this part
\* one at a time.
dispatch(self, client_ip, current_time) ==
    LET clients == cleaned(self.clients, current_time)
    IN  IF DictHas(clients, client_ip)
        THEN LET recent_requests == recent(DictGet(clients, client_ip),
                                           current_time)
             IN  IF over_limit(recent_requests)
                 THEN [self EXCEPT
                         !.clients = clients,
                         !.rejected = Append(@, <<client_ip, current_time>>)]
                 ELSE [self EXCEPT
                         !.clients = DictPut(clients, client_ip,
                                             Append(recent_requests,
                                                    current_time)),
                         !.admitted = Append(@, <<client_ip, current_time>>)]
        ELSE [self EXCEPT
                !.clients = DictPut(clients, client_ip, <<current_time>>),
                !.admitted = Append(@, <<client_ip, current_time>>)]

\* time.time() moves on; it does not step backwards.
Tick ==
    /\ limiter.pc = "serving"
    /\ limiter.now < MaxTime
    /\ limiter' = [limiter EXCEPT !.now = @ + 1]
    /\ UNCHANGED <<syncVars, driveVars, importVars, configVars, ai, hook,
                   organizer, validator, conv>>

\* A request of a client reaches the middleware.
Dispatch ==
    /\ limiter.pc = "serving"
    /\ Len(limiter.admitted) + Len(limiter.rejected) < MaxDispatches
    /\ \E client_ip \in ClientIps :
          limiter' = dispatch(limiter, client_ip, limiter.now)
    /\ UNCHANGED <<syncVars, driveVars, importVars, configVars, ai, hook,
                   organizer, validator, conv>>

LimiterInit ==
    /\ limiter = [pc |-> "serving", clients |-> <<>>, now |-> 0,
                  admitted |-> <<>>, rejected |-> <<>>]
    \* nothing else runs
    /\ config = <<>> /\ pc = "off" /\ repos = <<>> /\ idx = 1
    /\ results = <<>> /\ cur = NoCur /\ requests = <<>> /\ inflight = <<>>
    /\ last = NoRequest /\ returned = <<>>
    /\ files = <<>> /\ op = "off" /\ arg = 0 /\ out = <<>> /\ plans = <<>>
    /\ listing = <<>> /\ ipc = "off" /\ analyzed = <<>> /\ duplicates = <<>>
    /\ document = NoDocument /\ writers = <<>> /\ shared = FALSE
    /\ ai = Idle /\ hook = Idle /\ organizer = Idle
    /\ validator = Idle /\ conv = Idle

LimiterNext ==
    \/ Tick
    \/ Dispatch

SpecLimiter == LimiterInit /\ [][LimiterNext]_vars

-----------------------------------------------------------------------------
(* ConfigValidator (scripts/validate_config.py).  The warnings, which do   *)
(* not bear on the result, are left out.                                   *)

\* JSON values: a type and, for strings, lists and dicts, the content.
JStr(text) == [t |-> "str", v |-> text]
JBool == [t |-> "bool", v |-> <<>>]
JInt == [t |-> "int", v |-> <<>>]
JList(items) == [t |-> "list", v |-> items]
JDict(fields) == [t |-> "dict", v |-> fields]

\* isinstance(value, expected_type); bool is a subclass of int.
isinstance(value, expected_type) ==
    value.t = expected_type \/ (expected_type = "int" /\ value.t = "bool")

\* Repository entries and configuration files the validator is run on.
GoodRepo(name, full_name) ==
    [name |-> name, full_name |-> full_name, type |-> JStr(<<"s","e","r","v","i","c","e">>),
     enabled |-> JBool, features |-> JList(<<>>)]
GoodSettings ==
    JDict([auto_sync_enabled |-> JBool, sync_interval_minutes |-> JInt,
           auto_discover_new_repos |-> JBool, claude_api_enabled |-> JBool])
ConfigOf(owner, repositories, settings) ==
    [github_owner |-> owner, repositories |-> JList(repositories),
     sync_settings |-> settings, discovery_settings |-> settings,
     integration_settings |-> settings]
GoodConfig ==
    ConfigOf(JStr(<<"K","a","t","h","r","y","n","h","i","g","g","s","2","1">>),
             <<GoodRepo(<<"k","o","v","a","-","a","i">>, <<"K","a","t","h","r","y","n","h","i","g","g","s","2","1","/","k","o","v","a","-","a","i">>),
               GoodRepo(<<"k","o","v","a","-","a","i","-","s","i","t","e">>, <<"K","a","t","h","r","y","n","h","i","g","g","s","2","1","/","k","o","v","a","-","a","i","-","s","i","t","e">>)>>,
             GoodSettings)
ParsedConfigs ==
    {GoodConfig,
     \* two repositories of one full_name
     ConfigOf(JStr(<<"K","a","t","h","r","y","n","h","i","g","g","s","2","1">>),
              <<GoodRepo(<<"k","o","v","a","-","a","i">>, <<"K","a","t","h","r","y","n","h","i","g","g","s","2","1","/","k","o","v","a","-","a","i">>),
                GoodRepo(<<"k","o","v","a","-","a","i","-","2">>, <<"K","a","t","h","r","y","n","h","i","g","g","s","2","1","/","k","o","v","a","-","a","i">>)>>,
              GoodSettings),
     \* two repositories of one name
     ConfigOf(JStr(<<"K","a","t","h","r","y","n","h","i","g","g","s","2","1">>),
              <<GoodRepo(<<"k","o","v","a","-","a","i">>, <<"K","a","t","h","r","y","n","h","i","g","g","s","2","1","/","k","o","v","a","-","a","i">>),
                GoodRepo(<<"k","o","v","a","-","a","i">>, <<"o","t","h","e","r","/","k","o","v","a","-","a","i">>)>>,
              GoodSettings),
     \* an owner with a space; an empty owner; an owner that is a number
     ConfigOf(JStr(<<"K","a","t","h","r","y","n"," ","H","i","g","g","s">>), <<>>, GoodSettings),
     ConfigOf(JStr(<<>>), <<>>, GoodSettings),
     ConfigOf(JInt, <<>>, GoodSettings),
     \* a full_name without "/"; an entry without "enabled"; features
     \* that is not a list
     ConfigOf(JStr(<<"K","a","t","h","r","y","n","h","i","g","g","s","2","1">>), <<GoodRepo(<<"k","o","v","a","-","a","i">>, <<"k","o","v","a","-","a","i">>)>>,
              GoodSettings),
     ConfigOf(JStr(<<"K","a","t","h","r","y","n","h","i","g","g","s","2","1">>),
              <<[name |-> <<"k","o","v","a","-","a","i">>, full_name |-> <<"K","a","t","h","r","y","n","h","i","g","g","s","2","1","/","k","o","v","a","-","a","i">>,
                 type |-> JStr(<<"s","e","r","v","i","c","e">>)]>>,
              GoodSettings),
     ConfigOf(JStr(<<"K","a","t","h","r","y","n","h","i","g","g","s","2","1">>),
              <<[GoodRepo(<<"k","o","v","a","-","a","i">>, <<"K","a","t","h","r","y","n","h","i","g","g","s","2","1","/","k","o","v","a","-","a","i">>)
                   EXCEPT !.features = JStr(<<"s","y","n","c">>)]>>,
              GoodSettings),
     \* a setting of the wrong type
     ConfigOf(JStr(<<"K","a","t","h","r","y","n","h","i","g","g","s","2","1">>), <<>>,
              JDict([auto_sync_enabled |-> JStr(<<"y","e","s">>),
                     auto_discover_new_repos |-> JStr(<<"y","e","s">>),
                     claude_api_enabled |-> JStr(<<"y","e","s">>)])),
     \* no sync_settings; an empty document
     [github_owner |-> JStr(<<"K","a","t","h","r","y","n","h","i","g","g","s","2","1">>), repositories |-> JList(<<>>),
      discovery_settings |-> GoodSettings,
      integration_settings |-> GoodSettings],
     <<>>}

\* The file at config_path: missing, not JSON, or one of the documents.
ConfigFiles ==
    {[exists |-> FALSE, json |-> FALSE, content |-> <<>>],
     [exists |-> TRUE, json |-> FALSE, content |-> <<>>]}
    \cup {[exists |-> TRUE, json |-> TRUE, content |-> c] : c \in ParsedConfigs}

\* self.config before json.load has run.
NoConfig == [loaded |-> FALSE, content |-> <<>>]
Loaded(content) == [loaded |-> TRUE, content |-> content]

\* `if self.config`: None and the empty dict are false.
config_truthy(cfg) == cfg.loaded /\ DOMAIN cfg.content # {}

\* validate_required_fields
validate_required_fields(cfg) ==
    /\ \A field \in {"repositories", "sync_settings", "discovery_settings",
                     "integration_settings", "github_owner"} :
          field \in DOMAIN cfg
    /\ isinstance(cfg.github_owner, "str")
    /\ isinstance(cfg.repositories, "list")
    /\ isinstance(cfg.sync_settings, "dict")
    /\ isinstance(cfg.discovery_settings, "dict")
    /\ isinstance(cfg.integration_settings, "dict")

\* validate_github_owner
validate_github_owner(cfg) ==
    /\ "github_owner" \in DOMAIN cfg
    /\ isinstance(cfg.github_owner, "str")
    /\ cfg.github_owner.v # <<>>
    /\ ~Contains(cfg.github_owner.v, <<" ">>)

\* self.config.get("repositories", [])
repositories_of(cfg) ==
    IF "repositories" \in DOMAIN cfg THEN cfg.repositories.v ELSE <<>>

\* validate_repositories
validate_repositories(cfg) ==
    \A i \in DOMAIN repositories_of(cfg) :
        LET repo == repositories_of(cfg)[i]
        IN  /\ \A field \in {"name", "full_name", "type", "enabled"} :
                  field \in DOMAIN repo
            /\ "full_name" \in DOMAIN repo => Contains(repo.full_name, <<"/">>)
            /\ "features" \in DOMAIN repo => isinstance(repo.features, "list")

\* The loop of the three settings validators: the settings that are
\* present have the recommended type.
settings_valid(cfg, section, recommended) ==
    LET settings == IF section \in DOMAIN cfg THEN cfg[section].v ELSE <<>>
    IN  \A k \in DOMAIN recommended :
            recommended[k][1] \in DOMAIN settings
                => isinstance(settings[recommended[k][1]], recommended[k][2])

validate_sync_settings(cfg) ==
    settings_valid(cfg, "sync_settings",
                   <<<<"auto_sync_enabled", "bool">>,
                     <<"sync_interval_minutes", "int">>,
                     <<"sync_on_push", "bool">>, <<"sync_on_pr", "bool">>,
                     <<"cross_repo_notifications", "bool">>>>)

validate_discovery_settings(cfg) ==
    settings_valid(cfg, "discovery_settings",
                   <<<<"auto_discover_new_repos", "bool">>,
                     <<"repo_name_pattern", "str">>,
                     <<"watch_for_new_repos", "bool">>>>)

validate_integration_settings(cfg) ==
    settings_valid(cfg, "integration_settings",
                   <<<<"claude_api_enabled", "bool">>,
                     <<"github_webhooks_enabled", "bool">>,
                     <<"cross_repo_prs", "bool">>,
                     <<"unified_changelog", "bool">>>>)

\* repo.get(key): None for an entry without the key.
repo_get(repo, key) ==
    IF key \in DOMAIN repo THEN PyStr(repo[key]) ELSE PyNone

\* check_duplicates: no name and no full_name occurs twice.
check_duplicates(cfg) ==
    \A i, j \in DOMAIN repositories_of(cfg) :
        i # j =>
            /\ repo_get(repositories_of(cfg)[i], "name")
                  # repo_get(repositories_of(cfg)[j], "name")
            /\ repo_get(repositories_of(cfg)[i], "full_name")
                  # repo_get(repositories_of(cfg)[j], "full_name")

\* The validators in the order validate_all lists them.
FileChecks == <<"File Existence", "JSON Format">>
ContentChecks == <<"Required Fields", "GitHub Owner", "Repositories",
                   "Sync Settings", "Discovery Settings",
                   "Integration Settings", "Duplicate Check">>

\* The list validate_all builds before it runs any validator: the content
\* checks are added `if self.config`.
validations(cfg) ==
    IF config_truthy(cfg) THEN FileChecks \o ContentChecks ELSE FileChecks

\* One validator run on the file and on self.config: TRUE when it passes.
\* A validator that raises (a content check on a missing field) is caught
\* by validate_all and fails.
validator_passes(name, file, cfg) ==
    CASE name = "File Existence" -> file.exists
      [] name = "JSON Format" -> file.exists /\ file.json
      [] name = "Required Fields" -> validate_required_fields(cfg)
      [] name = "GitHub Owner" -> validate_github_owner(cfg)
      [] name = "Repositories" -> validate_repositories(cfg)
      [] name = "Sync Settings" -> validate_sync_settings(cfg)
      [] name = "Discovery Settings" -> validate_discovery_settings(cfg)
      [] name = "Integration Settings" -> validate_integration_settings(cfg)
      [] name = "Duplicate Check" -> check_duplicates(cfg)

\* validate_all is called, for the first time or once more on the same
\* validator: the list of validators is built.
ValidateAll ==
    /\ validator.pc \in {"ready", "returned"}
    /\ validator.calls < MaxValidateCalls
    /\ validator' = [validator EXCEPT
                       !.pc = "running",
                       !.calls = @ + 1,
                       !.validations = validations(validator.config),
                       !.ran = <<>>,
                       !.all_passed = TRUE]
    /\ UNCHANGED <<syncVars, driveVars, importVars, configVars, ai, hook,
                   organizer, limiter, conv>>

\* One turn of the loop of validate_all; validate_json_format sets
\* self.config when it succeeds.
RunValidator ==
    /\ validator.pc = "running"
    /\ Len(validator.ran) < Len(validator.validations)
    /\ LET name == validator.validations[Len(validator.ran) + 1]
           ok == validator_passes(name, validator.file,
                                  validator.config.content)
       IN  validator' =
              [validator EXCEPT
                 !.ran = Append(@, name),
                 !.all_passed = @ /\ ok,
                 !.errors = IF ok THEN @ ELSE Append(@, name),
                 !.config = IF name = "JSON Format" /\ ok
                            THEN Loaded(validator.file.content) ELSE @]
    /\ UNCHANGED <<syncVars, driveVars, importVars, configVars, ai, hook,
                   organizer, limiter, conv>>

\* print_summary and the return of validate_all.
ValidateReturn ==
    /\ validator.pc = "running"
    /\ Len(validator.ran) = Len(validator.validations)
    /\ validator' = [validator EXCEPT !.pc = "returned",
                                      !.passed = validator.all_passed]
    /\ UNCHANGED <<syncVars, driveVars, importVars, configVars, ai, hook,
                   organizer, limiter, conv>>

ValidatorInit ==
    /\ validator \in [pc : {"ready"}, file : ConfigFiles, config : {NoConfig},
                      validations : {<<>>}, ran : {<<>>}, errors : {<<>>},
                      all_passed : {TRUE}, passed : {TRUE}, calls : {0}]
    \* nothing else runs
    /\ config = <<>> /\ pc = "off" /\ repos = <<>> /\ idx = 1
    /\ results = <<>> /\ cur = NoCur /\ requests = <<>> /\ inflight = <<>>
    /\ last = NoRequest /\ returned = <<>>
    /\ files = <<>> /\ op = "off" /\ arg = 0 /\ out = <<>> /\ plans = <<>>
    /\ listing = <<>> /\ ipc = "off" /\ analyzed = <<>> /\ duplicates = <<>>
    /\ document = NoDocument /\ writers = <<>> /\ shared = FALSE
    /\ ai = Idle /\ hook = Idle /\ organizer = Idle
    /\ limiter = Idle /\ conv = Idle

ValidatorNext ==
    \/ ValidateAll
    \/ RunValidator
    \/ ValidateReturn

SpecValidator == ValidatorInit /\ [][ValidatorNext]_vars

-----------------------------------------------------------------------------
(* ClaudeConnector.multi_turn_conversation and send_message                *)
(* (kova-ai/app/services/claude_connector.py).                             *)

\* The user messages of a conversation.
UserMessages == {"first question", "second question"}
Conversations == SeqUpTo(UserMessages, MaxTurns)

Message(role, content) == [role |-> role, content |-> content]

\* What the provider does with a POST: it answers with a text, or the
\* request fails (an HTTP error status or an exception).
TurnOutcomes == {[success |-> TRUE, content |-> "answer"],
                 [success |-> FALSE, content |-> "none"]}

\* `messages = conversation_history or []`: a new list when the history is
\* empty (or None), the history list itself otherwise.
aliased(conversation_history) == conversation_history # <<>>

\* send_message up to its POST: the list it sends and the caller's list
\* after `messages.append(...)`, which is the same object when aliased.
send_message(prompt, conversation_history) ==
    LET messages == Append(conversation_history, Message("user", prompt))
    IN  [messages |-> messages,
         conversation_history |-> IF aliased(conversation_history)
                                  THEN messages ELSE conversation_history]

\* The lines after send_message returned: the two appends on success.
after_turn(conversation_history, message, result) ==
    IF result.success
    THEN conversation_history \o <<Message("user", message),
                                   Message("assistant", result.content)>>
    ELSE conversation_history

\* A turn begins: send_message builds its payload and posts it.
SendMessage ==
    /\ conv.pc = "turn"
    /\ conv.i <= Len(conv.messages)
    /\ LET sm == send_message(conv.messages[conv.i], conv.conversation_history)
       IN  conv' = [conv EXCEPT
                      !.pc = "posted",
                      !.sent = Append(@, sm.messages),
                      !.conversation_history = sm.conversation_history]
    /\ UNCHANGED <<syncVars, driveVars, importVars, configVars, ai, hook,
                   organizer, limiter, validator>>

\* The POST is answered or fails; send_message returns and the loop body
\* of multi_turn_conversation ends.
TurnAnswer ==
    /\ conv.pc = "posted"
    /\ \E result \in TurnOutcomes :
          conv' = [conv EXCEPT
                     !.pc = "turn",
                     !.i = @ + 1,
                     !.responses = Append(@, result),
                     !.conversation_history =
                         after_turn(@, conv.messages[conv.i], result)]
    /\ UNCHANGED <<syncVars, driveVars, importVars, configVars, ai, hook,
                   organizer, limiter, validator>>

\* return responses
ConversationReturn ==
    /\ conv.pc = "turn"
    /\ conv.i > Len(conv.messages)
    /\ conv' = [conv EXCEPT !.pc = "done"]
    /\ UNCHANGED <<syncVars, driveVars, importVars, configVars, ai, hook,
                   organizer, limiter, validator>>

ConversationInit ==
    /\ conv \in [pc : {"turn"}, messages : Conversations, i : {1},
                 conversation_history : {<<>>}, responses : {<<>>},
                 sent : {<<>>}]
    \* nothing else runs
    /\ config = <<>> /\ pc = "off" /\ repos = <<>> /\ idx = 1
    /\ results = <<>> /\ cur = NoCur /\ requests = <<>> /\ inflight = <<>>
    /\ last = NoRequest /\ returned = <<>>
    /\ files = <<>> /\ op = "off" /\ arg = 0 /\ out = <<>> /\ plans = <<>>
    /\ listing = <<>> /\ ipc = "off" /\ analyzed = <<>> /\ duplicates = <<>>
    /\ document = NoDocument /\ writers = <<>> /\ shared = FALSE
    /\ ai = Idle /\ hook = Idle /\ organizer = Idle
    /\ limiter = Idle /\ validator = Idle

ConversationNext ==
    \/ SendMessage
    \/ TurnAnswer
    \/ ConversationReturn

SpecConversation == ConversationInit /\ [][ConversationNext]_vars

-----------------------------------------------------------------------------
(* Properties of sync_all_repositories.                                    *)

EnabledIds == Range(get_enabled_repos(config))

\* The repositories of the metadata requests issued so far, in order.
Attempted ==
    LET m == SelectSeq(requests, LAMBDA q : q[2] = "metadata")
    IN  [i \in DOMAIN m |-> m[i][1]]

\* C1: whatever each request does, sync_all_repositories does not raise and
\* runs to its return; the map it returns has exactly the enabled
\* repository identifiers as keys, and every enabled entry was attempted,
\* in configuration order, whatever happened to the entries before it.
C1_SyncNeverRaises ==
    /\ pc # "raised"
    /\ pc # "done" => ENABLED SyncNext
    /\ pc = "done" =>
          /\ DictKeys(returned) = EnabledIds
          /\ Attempted = get_enabled_repos(config)

\* C1 witness: the first repository failed, the second was still synced,
\* and the call returned both.
C1_Witness ==
    /\ pc = "done"
    /\ Len(returned) = 2
    /\ returned[1][2].status = "error"
    /\ returned[2][2].status = "success"
    /\ returned[2][2].data.exists

\* The step being taken answers a request of the running _sync_single_repo
\* call.
InCall == pc \in {"meta", "commits", "branches"} /\ inflight # <<>>

\* After the step, the call has ended and r is stored for its repository.
Stored(r) ==
    /\ DictHas(results', repos[idx])
    /\ DictGet(results', repos[idx]) = r
    /\ idx' = idx + 1
    /\ \A k \in DictKeys(results) \ {repos[idx]} :
          DictHas(results', k) /\ DictGet(results', k) = DictGet(results, k)

\* After the step, the call goes on with its next request.
GoesOn(next) == pc' = next /\ results' = results /\ idx' = idx

C3_ErrorOrSuccess ==
    [][InCall =>
        /\ last'.outcome.kind = "exception"
              => Stored(ErrorResult("ConnectError"))
        /\ (/\ pc = "meta"
            /\ last'.outcome.kind = "response"
            /\ ~is_success(last'.outcome.status)
            /\ last'.outcome.status # 404)
              => Stored(ErrorResult("HTTPStatusError"))
        /\ (pc = "meta" /\ last'.outcome.status = 200) => GoesOn("commits")
        /\ (pc = "commits" /\ last'.outcome.kind = "response")
              => GoesOn("branches")
        /\ (pc = "branches" /\ last'.outcome.kind = "response")
              => /\ DictHas(results', repos[idx])
                 /\ DictGet(results', repos[idx]).status = "success"
      ]_vars

\* The body of a 200 answer is JSON of the shape the code reads.
WellFormed(o) == o.status = 200 => o.body = "valid"

\* C3 amended: as claimed, provided the body of every 200 answer is JSON of
\* the shape the code reads (an object for the repository, a list for the
\* commits, a list of objects with a name for the branches); a commits or
\* branches answer other than 200 counts as the empty list.
C3_ErrorOrSuccessWellFormed ==
    [][InCall =>
        /\ last'.outcome.kind = "exception"
              => Stored(ErrorResult("ConnectError"))
        /\ (/\ pc = "meta"
            /\ last'.outcome.kind = "response"
            /\ ~is_success(last'.outcome.status)
            /\ last'.outcome.status # 404)
              => Stored(ErrorResult("HTTPStatusError"))
        /\ (pc = "meta" /\ last'.outcome.status = 200
                        /\ WellFormed(last'.outcome))
              => GoesOn("commits") /\ cur' = [meta |-> "valid", commits |-> "none"]
        /\ (pc = "commits" /\ last'.outcome.kind = "response"
                           /\ WellFormed(last'.outcome))
              => /\ GoesOn("branches")
                 /\ cur' = [cur EXCEPT !.commits =
                               IF last'.outcome.status = 200
                               THEN "valid" ELSE "empty"]
        /\ (/\ pc = "branches"
            /\ cur.meta = "valid"
            /\ cur.commits \in {"valid", "empty"}
            /\ last'.outcome.kind = "response"
            /\ WellFormed(last'.outcome))
              => Stored(SuccessResult(
                    [exists |-> TRUE,
                     branches |-> IF last'.outcome.status = 200
                                  THEN ValidBranches ELSE <<>>,
                     recent_commits |-> IF cur.commits = "valid"
                                        THEN Len(ValidCommits) ELSE 0]))
      ]_vars

\* C3 witness: the metadata answered 200, the commits and the branches
\* requests answered 500, and the repository is stored as a success with
\* no branches and no commits.
C3_Witness ==
    /\ last.request = "branches"
    /\ last.outcome.status = 500
    /\ DictHas(results, last.repo)
    /\ DictGet(results, last.repo) =
          SuccessResult([exists |-> TRUE, branches |-> <<>>,
                         recent_commits |-> 0])

-----------------------------------------------------------------------------
(* Properties of GoogleDriveKovaIntegration.                               *)

\* How often x occurs in the list s.
Count(s, x) == Cardinality({i \in DOMAIN s : s[i] = x})

\* The positions of the groups (the values of the dict d) that hold x.
GroupsOf(d, x) == {k \in DOMAIN d : x \in Range(d[k][2])}

\* The name lowercased, with spaces, hyphens and underscores removed.
Normalized(name) ==
    SelectSeq(lower(name), LAMBDA c : c \notin {" ", "-", "_"})

SameNameAndSize(f, g) ==
    Normalized(f.name) = Normalized(g.name) /\ f.size = g.size

RuleOrder == <<"core", "documentation", "configuration", "code">>

\* The keyword or extension rule of a category matches the lowercased name.
RuleMatches(category, n) ==
    CASE category = "core" -> ContainsAny(n, CoreTerms)
      [] category = "documentation" ->
            ContainsAny(n, DocExtensions) \/ ContainsAny(n, DocTerms)
      [] category = "configuration" ->
            ContainsAny(n, ConfigExtensions) \/ ContainsAny(n, ConfigTerms)
      [] category = "code" -> ContainsAny(n, CodeExtensions)

FirstMatch(n) ==
    IF \E k \in DOMAIN RuleOrder : RuleMatches(RuleOrder[k], n)
    THEN RuleOrder[CHOOSE k \in DOMAIN RuleOrder :
                     /\ RuleMatches(RuleOrder[k], n)
                     /\ \A m \in 1..(k - 1) : ~RuleMatches(RuleOrder[m], n)]
    ELSE "unknown"

NoOtherExtension(n) ==
    ~ContainsAny(n, ConfigExtensions) /\ ~ContainsAny(n, CodeExtensions)

\* C7 as claimed: a name that contains "readme" and matches no extension
\* rule of another category is "documentation".
C7_ReadmeIsDocumentation ==
    op = "categorize_file" =>
        ((Contains(files[arg].name, <<"r","e","a","d","m","e">>)
            /\ NoOtherExtension(lower(files[arg].name)))
         => out = "documentation")

\* C7 amended: a name whose lowercased form contains "readme", matches no
\* extension rule of another category and contains none of the core terms
\* system, core, main, master is "documentation".
C7_ReadmeWithoutCoreTerm ==
    op = "categorize_file" =>
        ((Contains(lower(files[arg].name), <<"r","e","a","d","m","e">>)
            /\ NoOtherExtension(lower(files[arg].name))
            /\ ~ContainsAny(lower(files[arg].name), CoreTerms))
         => out = "documentation")

\* C7 witness: a name with "readme" in capitals and no documentation
\* extension is "documentation".
C7_Witness ==
    /\ op = "categorize_file"
    /\ Contains(lower(files[arg].name), <<"r","e","a","d","m","e">>)
    /\ ~Contains(files[arg].name, <<"r","e","a","d","m","e">>)
    /\ ~ContainsAny(lower(files[arg].name), DocExtensions)
    /\ NoOtherExtension(lower(files[arg].name))
    /\ out = "documentation"

RECURSIVE SumLen(_)
SumLen(d) == IF d = <<>> THEN 0 ELSE Len(Head(d)[2]) + SumLen(Tail(d))

\* C8: in the manifest every input record is listed under exactly one
\* category, every category key is one of the five, no key occurs twice,
\* and the lengths of the lists add up to total_files, the length of the
\* input.
C8_ManifestPartition ==
    op = "create_file_manifest" =>
        /\ DictKeys(out.categories) \subseteq Range(RuleOrder) \cup {"unknown"}
        /\ Cardinality(DictKeys(out.categories)) = Len(out.categories)
        /\ \A i \in DOMAIN files :
              Cardinality(GroupsOf(out.categories, files[i])) = 1
        /\ SumLen(out.categories) = out.total_files
        /\ out.total_files = Len(files)

\* C8 witness: a manifest of three records with two categories, one of
\* them holding two records.
C8_Witness ==
    /\ op = "create_file_manifest"
    /\ out.total_files = 3
    /\ Len(out.categories) = 2
    /\ \E k \in DOMAIN out.categories : Len(out.categories[k][2]) = 2

\* The lowercased name contains an obsolescence keyword or v1 .. v9.
FlaggedObsolete(f) ==
    \/ ContainsAny(lower(f.name), obsolete_keywords)
    \/ \E i \in 1..9 : Contains(lower(f.name), <<"v", Digits[i + 1]>>)

-----------------------------------------------------------------------------
(* Properties of GoogleDriveImporter.                                      *)

\* The lowercase word tokens of a name: the maximal runs of letters,
\* digits and underscores of its lowercased form.
WordSet(name) ==
    LET s == lower(name)
    IN  {SubSeq(s, i, j) : <<i, j>> \in
            {p \in (DOMAIN s) \X (DOMAIN s) :
                /\ p[1] <= p[2]
                /\ \A k \in p[1]..p[2] : is_word_char(s[k])
                /\ p[1] = 1 \/ ~is_word_char(s[p[1] - 1])
                /\ p[2] = Len(s) \/ ~is_word_char(s[p[2] + 1])}}

SimilarGroups == {k \in DOMAIN duplicates : duplicates[k].type = "similar_name"}

\* C5: every similar-name group find_duplicates emits is for two distinct
\* names whose token sets are not empty and whose Jaccard similarity is
\* above 0.8: |A \cap B| / |A \cup B| > 4/5.
C5_SimilarOnlyAboveThreshold ==
    ipc = "done" =>
        \A k \in SimilarGroups :
            LET a == WordSet(duplicates[k].name1)
                b == WordSet(duplicates[k].name2)
            IN  /\ duplicates[k].name1 # duplicates[k].name2
                /\ a # {} /\ b # {}
                /\ 5 * Cardinality(a \cap b) > 4 * Cardinality(a \cup b)

\* C5 witness: the listing holds two names whose similarity is exactly
\* 0.8 and two whose similarity is above it; only one similar-name group
\* is emitted.
C5_Witness ==
    /\ ipc = "done"
    /\ Cardinality(SimilarGroups) = 1
    /\ \E i, j \in DOMAIN listing :
          LET a == WordSet(listing[i].name)
              b == WordSet(listing[j].name)
          IN  /\ a # {}
              /\ 5 * Cardinality(a \cap b) = 4 * Cardinality(a \cup b)

\* C10: the relevance_score of every analysed record is an integer from 0
\* to 10.
C10_ScoreInRange ==
    \A k \in DOMAIN analyzed : analyzed[k].relevance_score \in 0..10

\* C10 witness: a record modified in the future gets the score 10.
C10_Witness ==
    \E k \in DOMAIN analyzed :
        /\ "modifiedTime" \in DOMAIN listing[k]
        /\ listing[k].modifiedTime < 0
        /\ analyzed[k].relevance_score = 10

-----------------------------------------------------------------------------
(* Properties of generate_migration_plan.                                  *)

\* A manifest was built and at least one plan was generated from it.
HasPlan == op = "create_file_manifest" /\ plans # <<>>

\* The folder the contract names for a category.
FolderOf(category) ==
    IF category = "core" THEN <<"0","1","_","C","O","R","E","_","S","Y","S","T","E","M">>
    ELSE IF category = "documentation" THEN <<"0","2","_","D","O","C","U","M","E","N","T","A","T","I","O","N">>
    ELSE IF category = "configuration" THEN <<"0","1","_","C","O","R","E","_","S","Y","S","T","E","M","/","c","o","n","f","i","g">>
    ELSE <<"0","6","_","D","E","V","E","L","O","P","M","E","N","T","/","a","c","t","i","v","e">>

\* The positions of the actions of a list that are about the file name n.
ActionsFor(actions, n) == {j \in DOMAIN actions : actions[j].file = n}

\* The positions of the records of a list that have the name n.
RecordsNamed(fs, n) == {j \in DOMAIN fs : fs[j].name = n}

\* C11: every record listed under a category and not flagged obsolete has
\* exactly one move action (records of one name: as many actions as
\* records), to the folder of its category; a record flagged obsolete has
\* no move action; no other move action exists; and every obsolete record
\* has exactly one archive action with the reason "Identified as obsolete".
C11_MovesAndObsoleteArchives ==
    HasPlan =>
        \A p \in DOMAIN plans :
            LET move == plans[p].actions.move
                archive == SelectSeq(plans[p].actions.archive,
                               LAMBDA a : a.reason = "Identified as obsolete")
            IN  /\ \A k \in DOMAIN out.categories :
                      LET c == out.categories[k][1]
                          fs == out.categories[k][2]
                      IN  \A i \in DOMAIN fs :
                              IF fs[i] \in Range(out.obsolete)
                              THEN ActionsFor(move, fs[i].name) = {}
                              ELSE /\ Cardinality(ActionsFor(move, fs[i].name))
                                        = Cardinality(RecordsNamed(fs, fs[i].name))
                                   /\ \A j \in ActionsFor(move, fs[i].name) :
                                          /\ move[j].to = FolderOf(c)
                                          /\ move[j].category = c
                /\ \A j \in DOMAIN move :
                      \E i \in DOMAIN files : files[i].name = move[j].file
                /\ \A i \in DOMAIN out.obsolete :
                      Cardinality(ActionsFor(archive, out.obsolete[i].name))
                          = Cardinality(RecordsNamed(out.obsolete,
                                                     out.obsolete[i].name))
                /\ Len(archive) = Len(out.obsolete)

\* C11 witness: a plan of three records, one moved to the configuration
\* folder, one archived as obsolete and not moved.
C11_Witness ==
    /\ HasPlan
    /\ Len(files) = 3
    /\ \E j \in DOMAIN plans[1].actions.move :
          plans[1].actions.move[j].to = <<"0","1","_","C","O","R","E","_","S","Y","S","T","E","M","/","c","o","n","f","i","g">>
    /\ \E i \in DOMAIN files :
          /\ files[i] \in Range(out.obsolete)
          /\ ActionsFor(plans[1].actions.move, files[i].name) = {}
          /\ \E j \in ActionsFor(plans[1].actions.archive, files[i].name) :
                plans[1].actions.archive[j].reason = "Identified as obsolete"

\* The members after the first of every duplicate group: <<k, i>> is the
\* i-th member of the k-th group.
LaterMembers ==
    UNION {{<<k, i>> : i \in 2..Len(out.duplicates[k][2])} :
               k \in DOMAIN out.duplicates}

\* C12: the archive actions with the reason "Duplicate" are, name by name,
\* as many as the members after the first of the groups; every group lists
\* the records of its signature in input order, the first seen first; so a
\* group of n members adds n - 1 such actions.
C12_DuplicateArchives ==
    HasPlan =>
        \A p \in DOMAIN plans :
            LET dup == SelectSeq(plans[p].actions.archive,
                                 LAMBDA a : a.reason = "Duplicate")
            IN  /\ Len(dup) = Cardinality(LaterMembers)
                /\ \A i \in DOMAIN files :
                      Cardinality(ActionsFor(dup, files[i].name))
                          = Cardinality({m \in LaterMembers :
                                out.duplicates[m[1]][2][m[2]].name
                                    = files[i].name})
                /\ \A k \in DOMAIN out.duplicates :
                      LET g == out.duplicates[k][2]
                      IN  /\ g = SelectSeq(files,
                                     LAMBDA f : SameNameAndSize(f, g[1]))
                          /\ Len(g) >= 2

\* C12 witness: a group of three members of two different names, with two
\* archive actions and none that names the first member alone.
C12_Witness ==
    /\ HasPlan
    /\ \E k \in DOMAIN out.duplicates :
          LET g == out.duplicates[k][2]
          IN  /\ Len(g) = 3
              /\ g[1].name # g[2].name
              /\ g[3].name = g[2].name
              /\ ActionsFor(plans[1].actions.archive, g[1].name) = {}
              /\ Cardinality(ActionsFor(plans[1].actions.archive, g[2].name)) = 2

\* The fixed taxonomy: the top-level folders and their sub-folders.
Taxonomy == DictGet(generate_folder_structure, <<"K","O","V","A","_","M","A","S","T","E","R","_","H","U","B">>)

\* C13: every plan has the folder_creation list of the plan of the empty
\* manifest; the list has no repetition, holds every top-level folder
\* directly followed by its sub-folders and nothing else; and a second
\* plan of the same manifest has the same list.
C13_FolderCreationFixed ==
    HasPlan =>
        \A p \in DOMAIN plans :
            LET fc == plans[p].folder_creation
            IN  /\ fc = plans[1].folder_creation
                /\ fc = generate_migration_plan(
                            create_file_manifest(<<>>)).folder_creation
                /\ \A i, j \in DOMAIN fc : fc[i] = fc[j] => i = j
                /\ \A k \in DOMAIN Taxonomy :
                      \E i \in DOMAIN fc :
                          /\ fc[i] = Taxonomy[k][1]
                          /\ \A j \in DOMAIN Taxonomy[k][2] :
                                /\ i + j \in DOMAIN fc
                                /\ fc[i + j] = Taxonomy[k][1] \o <<"/">>
                                                   \o Taxonomy[k][2][j]
                /\ Len(fc) = Len(Taxonomy) + SumLen(Taxonomy)

\* C13 witness: two plans of a manifest of three records in two
\* categories.
C13_Witness ==
    /\ HasPlan
    /\ Len(plans) = 2
    /\ Len(files) = 3
    /\ Len(out.categories) = 2
    /\ plans[2].folder_creation[3] = <<"0","1","_","C","O","R","E","_","S","Y","S","T","E","M","/","c","o","n","f","i","g">>

\* The three files of the end-to-end scenario.
Scenario == <<File(<<"k","o","v","a","_","c","o","n","f","i","g",".","j","s","o","n">>, 1024),
              File(<<"k","o","v","a","_","c","o","n","f","i","g","_","c","o","p","y",".","j","s","o","n">>, 1024),
              File(<<"R","E","A","D","M","E",".","m","d">>, 2048)>>

\* C14 as stated: for the scenario detect_duplicates returns one group,
\* whose members are the two config files.
C14_ScenarioOneGroup ==
    (files = Scenario /\ op = "detect_duplicates") =>
        /\ Len(out) = 1
        /\ out[1][2] = <<Scenario[1], Scenario[2]>>

\* C14: for the scenario detect_duplicates returns no group: kova_config.json
\* and kova_config_copy.json have different normalized names.
C14_ScenarioNoGroup ==
    (files = Scenario /\ op = "detect_duplicates") =>
        /\ out = <<>>
        /\ normalized_name(Scenario[1].name) # normalized_name(Scenario[2].name)
        /\ Scenario[1].size = Scenario[2].size

\* C14 witness: detect_duplicates has run on the scenario.
C14_Witness ==
    /\ files = Scenario
    /\ op = "detect_duplicates"
    /\ Len(out) = 0

\* C15: the plan of the scenario has exactly one archive action, for
\* kova_config_copy.json, and exactly two move actions.
C15_ScenarioPlan ==
    (files = Scenario /\ HasPlan) =>
        \A p \in DOMAIN plans :
            /\ Len(plans[p].actions.archive) = 1
            /\ plans[p].actions.archive[1].file = <<"k","o","v","a","_","c","o","n","f","i","g","_","c","o","p","y",".","j","s","o","n">>
            /\ Len(plans[p].actions.move) = 2

\* C15 witness: the plan of the scenario, whose one archive action has the
\* reason "Identified as obsolete".
C15_Witness ==
    /\ files = Scenario
    /\ HasPlan
    /\ plans[1].total_actions = 3
    /\ plans[1].actions.archive[1].reason = "Identified as obsolete"
    /\ out.duplicates = <<>>

-----------------------------------------------------------------------------
(* Properties of the requests of a sync pass.                              *)

\* C20 as stated: when the pass is over, three requests were issued for
\* every enabled repository: metadata, commits, branches.
C20_ThreeRequestsEach ==
    pc = "done" =>
        /\ Len(requests) = 3 * Len(repos)
        /\ \A i \in DOMAIN repos :
              /\ requests[3 * i - 2] = <<repos[i], "metadata">>
              /\ requests[3 * i - 1] = <<repos[i], "commits">>
              /\ requests[3 * i] = <<repos[i], "branches">>

\* The answer has a 2xx status and a JSON body.
JsonAnswer(o) ==
    o.kind = "response" /\ is_success(o.status) /\ o.body \in {"valid", "wrong_shape"}

\* The request raised or was answered 200 with a body that is not JSON.
Unreadable(o) ==
    o.kind = "exception" \/ (o.status = 200 /\ o.body = "not_json")

\* C20: every enabled repository gets one to three requests, in the order
\* metadata, commits, branches.  The commits request follows exactly when
\* the metadata request was answered 2xx with a JSON body, the branches
\* request exactly when the commits request was readable, and the branches
\* request is the last of its repository.
C20_RequestsByOutcome ==
    /\ [](/\ \A i \in DOMAIN requests :
               /\ requests[i][2] = "commits" =>
                     i > 1 /\ requests[i - 1] = <<requests[i][1], "metadata">>
               /\ requests[i][2] = "branches" =>
                     i > 1 /\ requests[i - 1] = <<requests[i][1], "commits">>
          /\ pc = "done" =>
               /\ Attempted = repos
               /\ Len(requests) >= Len(repos)
               /\ Len(requests) <= 3 * Len(repos))
    /\ [][InCall =>
            /\ requests' = requests
            /\ requests[Len(requests)] = <<repos[idx], RequestAt(pc)>>
            /\ last'.request = RequestAt(pc)
            /\ pc = "meta" => (GoesOn("commits") <=> JsonAnswer(last'.outcome))
            /\ pc = "commits" => (GoesOn("branches") <=> ~Unreadable(last'.outcome))
            /\ pc = "branches" => idx' = idx + 1
            /\ (pc' = pc \/ pc' \in {"meta", "return"}) => idx' = idx + 1
          ]_vars

\* C20 witness: a pass over two repositories in which the first got one
\* request (answered 404) and the second got all three.
C20_Witness ==
    /\ pc = "done"
    /\ Len(returned) = 2
    /\ returned[1][2].status = "success"
    /\ ~returned[1][2].data.exists
    /\ requests = <<<<repos[1], "metadata">>, <<repos[2], "metadata">>,
                    <<repos[2], "commits">>, <<repos[2], "branches">>>>

-----------------------------------------------------------------------------
(* Properties of the configuration document.                               *)

\* The identifiers of a list of repository entries.
FullNames(repositories) ==
    {repositories[i].full_name : i \in DOMAIN repositories}

\* The step is the one in which the call w reads the document.
Reads(w) == writers[w].pc = "read" /\ writers'[w] # writers[w]

\* The call w reads a document that holds its identifier.
ReadsOwnId(w) ==
    /\ Reads(w)
    /\ readable(document)
    /\ writers[w].repo_full_name \in FullNames(document.repositories)

\* C16 as stated: a call that finds its identifier in the document returns
\* failure and leaves the document unchanged.
C16_ExistingRejected ==
    [][\A w \in Writers :
          ReadsOwnId(w) =>
              /\ writers'[w].ret = "False"
              /\ document' = document]_vars

\* C16: a call that finds its identifier in the document returns True at
\* once, without writing; a call returns False only in a step that leaves
\* the document unchanged; and no call whose identifier was in the document
\* it read ever opens the document for writing.
C16_ExistingReturnsTrue ==
    /\ [][\A w \in Writers :
            /\ ReadsOwnId(w) =>
                  /\ writers'[w].pc = "done"
                  /\ writers'[w].ret = "True"
                  /\ ~writers'[w].wrote
                  /\ document' = document
            /\ (writers[w].ret = "none" /\ writers'[w].ret = "False") =>
                  document' = document]_vars
    /\ [](\A w \in DOMAIN writers :
            (writers[w].pc \in {"open_w", "dump"} \/ writers[w].wrote) =>
                /\ writers[w].config # <<>>
                /\ writers[w].repo_full_name \notin
                       FullNames(SubSeq(writers[w].config, 1,
                                        Len(writers[w].config) - 1)))

\* C16 witness: a call for an identifier of the document has returned True
\* and the document is the one it read.
C16_Witness ==
    \E w \in DOMAIN writers :
        /\ writers[w].pc = "done"
        /\ writers[w].ret = "True"
        /\ ~writers[w].wrote
        /\ writers[w].repo_full_name \in FullNames(writers[w].config)
        /\ document = Json(writers[w].config)

\* Both calls have added an entry and returned True, for two identifiers.
BothAdded ==
    /\ DOMAIN writers = Writers
    /\ \A w \in Writers :
          writers[w].pc = "done" /\ writers[w].ret = "True" /\ writers[w].wrote
    /\ writers["w1"].repo_full_name # writers["w2"].repo_full_name

\* The identifiers of the two calls that the document holds.
Kept ==
    {writers[w].repo_full_name : w \in Writers}
        \cap FullNames(document.repositories)

\* C17: when both calls have added their identifier, the document is the
\* whole local config of the call that dumped last: an identifier is lost
\* exactly when neither call had read the other's entry, which no
\* interleaving of the coroutines of one event loop produces.
C17_LostUpdate ==
    BothAdded =>
        /\ \E w \in Writers : document = Json(writers[w].config)
        /\ Cardinality(Kept) \in {1, 2}
        /\ Cardinality(Kept) = 1 <=>
              \A w \in Writers :
                  Cardinality({writers[v].repo_full_name : v \in Writers}
                                  \cap FullNames(writers[w].config)) = 1
        /\ shared => Cardinality(Kept) = 2

\* C17 witness: both calls of two processes returned True and the document
\* holds only one of the two identifiers.
C17_Witness ==
    /\ BothAdded
    /\ ~shared
    /\ Cardinality(Kept) = 1
    /\ Len(document.repositories) = 1

\* The entry of a planned repository.
PlannedEntry(call) ==
    [name |-> split_last(call.repo_full_name),
     full_name |-> call.repo_full_name,
     description |-> "Planned repository",
     type |-> call.repo_type,
     enabled |-> "True",
     sync_priority |-> 3,
     features |-> <<>>]

\* The existence check of the call was answered 404.
Planned(call) ==
    /\ "description" \in DOMAIN call.repo_info
    /\ call.repo_info.description = "Planned repository"

\* C18: a call whose existence check was answered 404 goes on to read the
\* document; when the document it reads lacks its identifier it appends
\* one enabled entry described as a planned repository, and its dump makes
\* that list the document and returns True.
C18_PlannedStillAdded ==
    [][\A w \in Writers :
          /\ (writers[w].pc = "check" /\ Planned(writers'[w])) =>
                writers'[w].pc = "read"
          /\ (/\ Reads(w)
              /\ Planned(writers[w])
              /\ readable(document)
              /\ writers[w].repo_full_name \notin FullNames(document.repositories))
             => /\ writers'[w].config =
                       Append(document.repositories, PlannedEntry(writers[w]))
                /\ IF shared
                   THEN /\ document' = Json(writers'[w].config)
                        /\ writers'[w].pc = "done"
                        /\ writers'[w].ret = "True"
                   ELSE /\ document' = document
                        /\ writers'[w].pc = "open_w"
          /\ (writers[w].pc = "dump" /\ writers'[w].pc = "done") =>
                /\ document' = Json(writers[w].config)
                /\ writers'[w].ret = "True"
                /\ writers'[w].config = writers[w].config]_vars

\* C18 witness: a call answered 404 has returned True, and the document is
\* the entry that was there followed by the planned entry.
C18_Witness ==
    \E w \in DOMAIN writers :
        /\ writers[w].pc = "done"
        /\ writers[w].ret = "True"
        /\ writers[w].wrote
        /\ Planned(writers[w])
        /\ Len(document.repositories) = 2
        /\ document.repositories[2] = PlannedEntry(writers[w])
        /\ document.repositories[2].enabled = "True"
        /\ document.repositories[1].full_name # writers[w].repo_full_name

\* The step is _load_config on a document that cannot be read.
LoadsUnreadable == pc = "new" /\ pc' = "loaded" /\ ~readable(document)

\* C19 as stated: loading a missing or unparsable document gives the
\* default list, which has five repositories, all enabled.
C19_DefaultHasFive ==
    [][LoadsUnreadable =>
          /\ Len(config') = 5
          /\ Len(get_enabled_repos(config')) = 5]_vars

\* C19: loading never fails; loading a missing or unparsable document
\* gives the default list, which has six different repositories, all
\* enabled, and loading a JSON document gives its repositories.
C19_DefaultHasSix ==
    /\ [](pc = "new" => ENABLED LoadConfig)
    /\ [][(pc = "new" /\ pc' = "loaded") =>
            IF readable(document)
            THEN config' = document.repositories
            ELSE /\ Len(config') = 6
                 /\ Cardinality(FullNames(config')) = 6
                 /\ \A i \in DOMAIN config' : config'[i].enabled = "True"
                 /\ Len(get_enabled_repos(config')) = 6]_vars

\* C19 witness: the configuration was loaded while the document was
\* missing, and it has the six default repositories.
C19_Witness ==
    /\ pc = "loaded"
    /\ document = NoDocument
    /\ Len(config) = 6
    /\ config[6].full_name = <<"K","a","t","h","r","y","n","h","i","g","g","s","2","1","/","K","o","v","a","-","A","I","-","S","c","r","i","b","b","l","e","s">>


-----------------------------------------------------------------------------
(* One action per file record.                                             *)

\* C30: in every plan generated from a manifest, every file record is the
\* subject of exactly one action, a move or an archive (records of one
\* name: as many actions as records), so total_actions is the number of
\* files of the manifest.
C30_OneActionPerFile ==
    HasPlan =>
        \A p \in DOMAIN plans :
            /\ plans[p].total_actions = Len(files)
            /\ \A i \in DOMAIN files :
                  Cardinality(ActionsFor(plans[p].actions.move, files[i].name))
                      + Cardinality(ActionsFor(plans[p].actions.archive,
                                               files[i].name))
                      = Cardinality(RecordsNamed(files, files[i].name))

-----------------------------------------------------------------------------
(* add_repo_to_config calls made one after the other.                      *)

\* The full_names of a list are pairwise distinct.
Distinct(repositories) ==
    \A i, j \in DOMAIN repositories :
        repositories[i].full_name = repositories[j].full_name => i = j

\* The list a call read: its local config without the entry it appended.
ListRead(w) == SubSeq(writers[w].config, 1, Len(writers[w].config) - 1)

\* C28: under calls that do not overlap, the full_names of the document
\* stay pairwise distinct; a call that writes finds, when it opens the
\* document for writing, the list it read, and leaves that list extended
\* at the end by one entry of its own identifier, which the list did not
\* hold; a call that returns without writing leaves the document as it
\* is; and a call for an identifier that an earlier call added changes
\* nothing and returns True.
C28_SequentialAdds ==
    /\ [](readable(document) => Distinct(document.repositories))
    /\ [][\A w \in Writers :
            /\ (writers[w].pc = "read" /\ writers'[w].pc = "done"
                /\ ~writers'[w].wrote)
                  => document' = document
            /\ (writers[w].pc = "read" /\ writers'[w].wrote)
                  => /\ readable(document)
                     /\ document'
                          = Json(Append(document.repositories,
                                 writers'[w].config[Len(writers'[w].config)]))
            /\ (writers[w].pc = "open_w" /\ writers'[w].pc = "dump")
                  => document = Json(ListRead(w))
            /\ (writers[w].pc = "dump" /\ writers'[w].pc = "done")
                  => /\ document = Unparsable
                     /\ document' = Json(writers[w].config)
            /\ (writers'[w].pc \in {"open_w", "dump"}
                \/ (writers'[w].wrote /\ ~writers[w].wrote))
                  => LET c == writers'[w].config
                     IN  /\ c[Len(c)].full_name = writers[w].repo_full_name
                         /\ c[Len(c)].full_name
                                \notin FullNames(SubSeq(c, 1, Len(c) - 1))
            /\ (/\ writers[w].pc = "read" /\ writers'[w] # writers[w]
                /\ \E v \in Writers \ {w} :
                      /\ writers[v].wrote
                      /\ writers[v].repo_full_name = writers[w].repo_full_name)
                  => /\ document' = document
                     /\ writers'[w].ret = "True"
                     /\ ~writers'[w].wrote
         ]_vars

\* C28 witness: both calls returned, the first added its identifier to a
\* document of two entries and the second, for the same identifier,
\* returned True without writing; the document holds three entries.
C28_Witness ==
    /\ writers["w1"].pc = "done" /\ writers["w1"].wrote
    /\ writers["w2"].pc = "done" /\ ~writers["w2"].wrote
    /\ writers["w2"].ret = "True"
    /\ writers["w1"].repo_full_name = writers["w2"].repo_full_name
    /\ readable(document) /\ Len(document.repositories) = 3
    /\ ~shared

-----------------------------------------------------------------------------
(* The order of the requests of a sync pass.                               *)

\* C24: at most one request is outstanding at any moment, it is the latest
\* request issued and it is for the repository the pass is at; the
\* repositories requested so far are a prefix of the enabled repositories
\* in configuration order; and a request is issued only when no request is
\* outstanding and the result of every earlier enabled repository has been
\* recorded.
C24_OneAtATime ==
    /\ [](/\ Len(inflight) <= 1
          /\ inflight # <<>> =>
                /\ inflight[1] = requests[Len(requests)]
                /\ inflight[1][1] = repos[idx]
          /\ pc # "start" =>
                /\ Len(Attempted) <= Len(repos)
                /\ Attempted = SubSeq(get_enabled_repos(config), 1,
                                      Len(Attempted)))
    /\ [][requests' # requests =>
            /\ inflight = <<>>
            /\ requests' = Append(requests, <<repos[idx], RequestAt(pc)>>)
            /\ Len(results) >= Cardinality({repos[j] : j \in 1..(idx - 1)})
            /\ \A j \in 1..(idx - 1) : DictHas(results, repos[j])
            /\ \A j \in idx..Len(repos) :
                  repos[j] \notin {repos[k] : k \in 1..(idx - 1)}
                      => ~DictHas(results, repos[j])
         ]_vars

\* C24 witness: the metadata request of the second repository is
\* outstanding, the first repository's three requests were answered and
\* its result is recorded.
C24_Witness ==
    /\ pc = "meta" /\ idx = 2
    /\ inflight = <<<<repos[2], "metadata">>>>
    /\ Len(requests) = 4
    /\ repos[1] # repos[2]
    /\ DictKeys(results) = {repos[1]}

-----------------------------------------------------------------------------
(* Requests for AI analysis without an API key.                            *)

\* C21: a request for AI analysis made with no API key (None or the empty
\* string) ends with an error that says "not configured", and no request
\* to the provider was issued.
C21_NotConfigured ==
    (ai.pc = "done" /\ ~truthy(ai.key)
        /\ (ai.entry = "endpoint" => ai.action = "sync")) =>
        /\ ai.posts = <<>>
        /\ ai.response.kind = "dict" =>
              Contains(ai.response.error, <<"n","o","t"," ","c","o","n","f","i","g","u","r","e","d">>)
        /\ ai.response.kind = "http" =>
              /\ ai.response.status_code >= 400
              /\ Contains(ai.response.detail, <<"n","o","t"," ","c","o","n","f","i","g","u","r","e","d">>)

-----------------------------------------------------------------------------
(* Deliveries the webhook endpoint rejects.                                *)

\* C22: a delivery that passes the signature verification and whose body
\* is not valid JSON or not decodable text is answered with a 4xx status,
\* and no background task is added for it.
C22_UnparsableRejected ==
    (/\ hook.pc \in {"answered", "processed"}
     /\ hook.verified = "True"
     /\ loads_decode(hook.body) # "payload") =>
        /\ hook.answer.status_code >= 400
        /\ hook.answer.status_code <= 499
        /\ hook.answer.tasks = <<>>

\* C26: with a secret configured, a delivery whose signature is missing or
\* does not match is answered 401 "Invalid signature", its payload is not
\* parsed and no background task is added for it.
C26_BadSignature401 ==
    (/\ hook.pc \in {"answered", "processed"}
     /\ hook.secret # ""
     /\ hook.verified = "False") =>
        /\ hook.answer.status_code = 401
        /\ hook.answer.detail = <<"I","n","v","a","l","i","d"," ","s","i","g","n","a","t","u","r","e">>
        /\ ~hook.answer.parsed
        /\ hook.answer.tasks = <<>>

-----------------------------------------------------------------------------
(* The file organizer in execute mode.                                     *)

\* C23: after a run in execute mode on an inventory, every file of the
\* inventory was processed and is counted as moved or as an error, so
\* moved + errors = processed, and every file not counted as an error was
\* moved.
C23_ExecuteMoves ==
    (/\ organizer.pc = "done"
     /\ organizer.execute
     /\ organizer.inventory_exists) =>
        /\ organizer.stats.processed = Len(organizer.inventory)
        /\ organizer.stats.moved + organizer.stats.errors
              = organizer.stats.processed
        /\ Len(organizer.moved) = organizer.stats.moved

-----------------------------------------------------------------------------
(* The rate limit.                                                         *)

\* The requests of a client admitted with a timestamp in (t - period, t].
AdmittedIn(client_ip, t) ==
    {i \in DOMAIN limiter.admitted :
        /\ limiter.admitted[i][1] = client_ip
        /\ limiter.admitted[i][2] > t - period
        /\ limiter.admitted[i][2] <= t}

\* C25: for every client and every time t, at most `calls` of the client's
\* admitted requests have a timestamp in (t - period, t]; and a request
\* that is rejected leaves the timestamps recorded for its client as they
\* were.
C25_RateLimit ==
    /\ [](\A client_ip \in ClientIps : \A t \in 0..MaxTime :
              Cardinality(AdmittedIn(client_ip, t)) <= calls)
    /\ [][limiter'.rejected # limiter.rejected =>
            LET client_ip == limiter'.rejected[Len(limiter'.rejected)][1]
            IN  /\ limiter'.admitted = limiter.admitted
                /\ DictHas(limiter.clients, client_ip)
                /\ DictHas(limiter'.clients, client_ip)
                /\ DictGet(limiter'.clients, client_ip)
                      = DictGet(limiter.clients, client_ip)
         ]_vars

\* C25 witness: a client was admitted `calls` times inside one window and
\* rejected inside it, and admitted again once the window had moved on,
\* while the other client was admitted meanwhile.
C25_Witness ==
    /\ \E i \in DOMAIN limiter.rejected : limiter.rejected[i][1] = "10.0.0.1"
    /\ \E i, j \in DOMAIN limiter.admitted :
          /\ i < j
          /\ limiter.admitted[i][1] = "10.0.0.2"
          /\ limiter.admitted[j][1] = "10.0.0.1"
          /\ limiter.admitted[j][2] > limiter.rejected[1][2]
    /\ Cardinality(AdmittedIn("10.0.0.1", limiter.rejected[1][2])) = calls

-----------------------------------------------------------------------------
(* The checks validate_all runs.                                           *)

\* Every content check passes on a document.
ContentValid(cfg) ==
    \A k \in DOMAIN ContentChecks :
        validator_passes(ContentChecks[k], [exists |-> TRUE, json |-> TRUE],
                         cfg)

\* C27: for a file that exists and parses as JSON, validate_all (called on
\* a new validator, as main() does) has run, when it returns, the file check, the JSON check and then the seven
\* content checks, and it returns passed = false when one of them fails.
C27_AllChecksRun ==
    (/\ validator.pc = "returned"
     /\ validator.calls = 1
     /\ validator.file.exists
     /\ validator.file.json) =>
        /\ validator.ran = FileChecks \o ContentChecks
        /\ ~ContentValid(validator.file.content) => ~validator.passed

-----------------------------------------------------------------------------
(* The messages of a multi-turn conversation.                              *)

\* The user/assistant pairs of the successful turns among the first n.
RECURSIVE Pairs(_)
Pairs(n) ==
    IF n = 0 THEN <<>>
    ELSE Pairs(n - 1)
         \o IF conv.responses[n].success
            THEN <<Message("user", conv.messages[n]),
                   Message("assistant", conv.responses[n].content)>>
            ELSE <<>>

\* C29: the list sent at every turn is the pairs of the earlier successful
\* turns followed by the current user message, so its roles alternate
\* from "user" on; and between the turns the history is those pairs, a
\* failed turn having left it as it was.
C29_HistoryOfPairs ==
    /\ \A k \in DOMAIN conv.sent :
          /\ k <= Len(conv.responses) + 1
          /\ conv.sent[k] = Pairs(k - 1) \o <<Message("user", conv.messages[k])>>
          /\ \A j \in DOMAIN conv.sent[k] :
                conv.sent[k][j].role = IF j % 2 = 1 THEN "user" ELSE "assistant"
    /\ conv.pc \in {"turn", "done"} =>
          conv.conversation_history = Pairs(Len(conv.responses))
=============================================================================
